---- MODULE Spec2Model ----
(***************************************************************************)
(* Model of the testastic comparison engine: the JSON comparator           *)
(* (compare and its helpers), the comparison Config, the matchers, and the *)
(* HTML child comparison.  Go values of type `any` are tagged records, Go  *)
(* strings are TLA+ strings, float64 numbers are counted in halves.        *)
(***************************************************************************)
EXTENDS Integers, Sequences, FiniteSets, TLC

VARIABLES
    pc,         \* position of the assertion: "start" before the comparison, "done" after
    mode,       \* which comparator the run exercises: "json" or "html"
    expected,   \* expected.Data of AssertJSON (a value tree, may hold matchers)
    actual,     \* actualData of AssertJSON (a matcher-free value tree)
    cfg,        \* the Config built by newConfig from the options
    keyOrder,   \* the order in which this run's `range` over a map visits the keys
    diffs,      \* the []Difference returned by compare
    hexp,       \* expected children handed to compareHTMLChildren
    hact,       \* actual children handed to compareHTMLChildren
    hcfg,       \* the HTMLConfig
    hdiffs,     \* the []HTMLDifference returned by compareHTMLChildren
    lexp,       \* the expected lines handed to computeDiff
    lact,       \* the actual lines handed to computeDiff
    ops,        \* the operations of computeDiff, in output order
    result,     \* the []string returned by computeDiff
    colorsEnabled, \* the package variable colorsEnabled: "nil", "true" or "false"
    env,        \* what detectColors returns in this process
    gor,        \* the goroutines that run computeDiff concurrently
    content,    \* the content of the expected file handed to the parser
    parsed,     \* the (document, error) pair the parser returned
    matched,    \* the answer of a Matcher's Match called on its own
    update,     \* cfg.Update of the call in progress
    exists,     \* whether the expected file exists on disk
    tb,         \* what the call told testing.TB: "ok", "fatal" (Fatalf) or "error" (Errorf)
    steps,      \* the steps the call in progress has taken, in order
    prev,       \* the call before the one in progress, as a record
    calls,      \* number of assertion calls begun
    writes      \* number of os.WriteFile calls on the expected file

coreVars == <<expected, actual, cfg, keyOrder, diffs, hexp, hact, hcfg, hdiffs>>
diffVars == <<lexp, lact, ops, result, colorsEnabled, env, gor>>
parseVars == <<content, parsed, matched>>
callVars == <<update, exists, tb, steps, prev, calls, writes>>
vars == <<pc, mode, expected, actual, cfg, keyOrder, diffs, hexp, hact, hcfg, hdiffs,
          lexp, lact, ops, result, colorsEnabled, env, gor, content, parsed, matched,
          update, exists, tb, steps, prev, calls, writes>>

\* no file is looked up or written and no sequence of calls is followed
CallIdle ==
    /\ update = FALSE /\ exists = TRUE /\ tb = "ok" /\ steps = <<>>
    /\ prev = <<>> /\ calls = 0 /\ writes = 0

\* the documents of a comparison run are already parsed, and no Matcher is
\* called on its own
ParseIdle == content = <<>> /\ parsed = <<>> /\ matched = FALSE

\* the line differ is not part of a comparison run
DiffIdle ==
    /\ lexp = <<>> /\ lact = <<>> /\ ops = <<>> /\ result = <<>>
    /\ colorsEnabled = "nil" /\ env = FALSE /\ gor = <<>>

(* Go values (encoding/json trees plus Matcher objects).                   *)

\* nil: JSON null, and the "no value" of a Difference side
Null == [t |-> "null"]
Bool(b) == [t |-> "bool", v |-> b]
\* float64, stored as a count of halves: Num(2) is 1.0, Num(3) is 1.5
Num(h) == [t |-> "num", v |-> h]
Str(s) == [t |-> "str", v |-> s]
\* map[string]any: a function from key strings to values
Obj(m) == [t |-> "obj", v |-> m]
\* []any: a sequence of values
Arr(a) == [t |-> "arr", v |-> a]
\* a Matcher object; args is the regex pattern or the oneOf values
MatcherVal(kind, args) == [t |-> "matcher", v |-> [kind |-> kind, args |-> args]]

EmptyMap == [k \in {} |-> Null]

AnyString == MatcherVal("anyString", <<>>)
AnyInt == MatcherVal("anyInt", <<>>)
AnyFloat == MatcherVal("anyFloat", <<>>)
AnyBool == MatcherVal("anyBool", <<>>)
AnyValue == MatcherVal("anyValue", <<>>)
Ignore == MatcherVal("ignore", <<>>)
Regex(pattern) == MatcherVal("regex", <<pattern>>)
OneOf(values) == MatcherVal("oneOf", values)

IsMatcher(x) == x.t = "matcher"
\* no matcher is the ignore matcher
IsIgnore_Never(x) == FALSE

IsIgnore(x) == IsMatcher(x) /\ x.v.kind = "ignore"

DiffChanged == "changed"
DiffAdded == "added"
DiffRemoved == "removed"
DiffTypeMismatch == "type_mismatch"
DiffMatcherFailed == "matcher_failed"

Difference(path, exp, act, type) ==
    [Path |-> path, Expected |-> exp, Actual |-> act, Type |-> type]

(* String helpers of the Go standard library.                              *)

HasPrefix(s, p) == Len(s) >= Len(p) /\ SubSeq(s, 1, Len(p)) = p

RECURSIVE Contains(_, _)
Contains(s, sub) ==
    IF Len(s) < Len(sub) THEN FALSE
    ELSE HasPrefix(s, sub) \/ Contains(Tail(s), sub)

\* the last element of strings.Split(path, "."): the text after the last "."
RECURSIVE LastSegment(_)
LastSegment(path) ==
    IF ~Contains(path, ".") THEN path
    ELSE LET i == CHOOSE j \in 1..Len(path) : SubSeq(path, j, j) = "."
                     /\ \A l \in 1..(j - 1) : SubSeq(path, l, l) # "."
         IN LastSegment(SubSeq(path, i + 1, Len(path)))

\* strings.Join(values, " ")
RECURSIVE JoinSpace(_)
JoinSpace(values) ==
    IF values = <<>> THEN ""
    ELSE IF Len(values) = 1 THEN values[1]
    ELSE values[1] \o " " \o JoinSpace(Tail(values))

\* fmt.Sprintf("%s[%d]", path, i)
IndexPath(path, i) == path \o "[" \o ToString(i) \o "]"

(* Matchers.                                                               *)

\* a value of one of the Go integer types (int, int8, ..., uint64)
IntVal(n) == [t |-> "int", v |-> n]
\* a float64 of integer value beyond the int64 range, such as 1e19
HugeNum == [t |-> "hugenum", v |-> 0]

\* the conversion that keeps the fraction
TruncInt_Identity(h) == h

\* int64(v) for a float64 v: truncation toward zero, on halves
TruncInt(h) == IF h >= 0 THEN (h \div 2) * 2 ELSE 0 - (((0 - h) \div 2) * 2)

\* regexp.MatchString for the patterns used here: a literal, optionally
\* anchored with ^ at its start and $ at its end
RegexMatch(pattern, s) ==
    LET n == Len(pattern)
        atStart == n >= 1 /\ SubSeq(pattern, 1, 1) = "^"
        atEnd == n >= 1 /\ SubSeq(pattern, n, n) = "$"
        body == SubSeq(pattern, (IF atStart THEN 2 ELSE 1), (IF atEnd THEN n - 1 ELSE n))
        HasSuffix == Len(s) >= Len(body) /\ SubSeq(s, Len(s) - Len(body) + 1, Len(s)) = body
    IN  IF atStart /\ atEnd THEN s = body
        ELSE IF atStart THEN HasPrefix(s, body)
        ELSE IF atEnd THEN HasSuffix
        ELSE Contains(s, body)

\* v == float64(int64(v)) for a float64 v.  Beyond the int64 range the
\* result of int64(v) depends on the implementation, and float64 of an
\* int64 is never beyond that range: the comparison fails for every outcome.
IsWholeFloat(x) ==
    CASE x.t = "num" -> x.v = TruncInt(x.v)
      [] x.t = "hugenum" -> FALSE
      [] OTHER -> FALSE

Match(m, act) ==
    CASE m.v.kind = "anyString" -> act.t = "str"
      [] m.v.kind = "anyInt" -> act.t = "int" \/ IsWholeFloat(act)
      [] m.v.kind = "anyFloat" -> act.t \in {"num", "hugenum", "int"}
      [] m.v.kind = "anyBool" -> act.t = "bool"
      [] m.v.kind = "anyValue" -> TRUE
      [] m.v.kind = "ignore" -> TRUE
      [] m.v.kind = "regex" -> act.t = "str" /\ RegexMatch(m.v.args[1], act.v)
      [] m.v.kind = "oneOf" ->
            \E i \in 1..Len(m.v.args) : act.t = "str" /\ act.v = m.v.args[i]

\* the backtick character; a TLA+ string cannot hold one, so it is written
\* as an apostrophe, which occurs nowhere else in the modelled strings
BT == "'"

MatcherString(m) ==
    CASE m.v.kind = "regex" -> "{{regex " \o BT \o m.v.args[1] \o BT \o "}}"
      [] m.v.kind = "oneOf" -> "{{oneOf [" \o JoinSpace(m.v.args) \o "]}}"
      [] OTHER -> "{{" \o m.v.kind \o "}}"

(* Config.                                                                 *)

Config(order, orderPaths, fields) ==
    [IgnoreArrayOrder |-> order, IgnoreArrayOrderPaths |-> orderPaths,
     IgnoredFields |-> fields]

\* shouldIgnoreArrayOrder consulting the path list only
shouldIgnoreArrayOrder_RawPrefix(c, path) ==
    \/ c.IgnoreArrayOrder
    \/ \E i \in 1..Len(c.IgnoreArrayOrderPaths) :
          HasPrefix(path, c.IgnoreArrayOrderPaths[i])

shouldIgnoreArrayOrder(c, path) ==
    \/ c.IgnoreArrayOrder
    \/ \E i \in 1..Len(c.IgnoreArrayOrderPaths) :
          LET p == c.IgnoreArrayOrderPaths[i]
          IN  p = path \/ HasPrefix(path, p \o ".") \/ HasPrefix(path, p \o "[")

\* the exact-path rule alone
isFieldIgnored_ExactOnly(c, path) ==
    \E i \in 1..Len(c.IgnoredFields) : c.IgnoredFields[i] = path

isFieldIgnored(c, path) ==
    \E i \in 1..Len(c.IgnoredFields) :
        LET f == c.IgnoredFields[i]
        IN  f = path \/ LastSegment(path) = f

(* The JSON comparator.                                                    *)

\* the keys of map m in the order the `range` loops of this run visit them
KeysInOrder(m) == SelectSeq(keyOrder, LAMBDA k : k \in DOMAIN m)

RECURSIVE compare(_, _, _, _)
RECURSIVE compareObjects(_, _, _, _)
RECURSIVE compareArrays(_, _, _, _)
RECURSIVE compareArraysOrdered(_, _, _, _)
RECURSIVE compareArraysUnordered(_, _, _, _)
RECURSIVE FirstUnused_AnyPosition(_, _, _, _, _, _)
RECURSIVE PairingLoop_NoMark(_, _, _, _, _, _, _)
RECURSIVE ExpectedPass(_, _, _, _, _)
RECURSIVE OrderedFrom(_, _, _, _, _)
RECURSIVE FirstUnused(_, _, _, _, _, _)
RECURSIVE PairingLoop(_, _, _, _, _, _, _)

\* compareNumbers comparing the numbers as integers
compareNumbers_AsInt(exp, act, path) ==
    IF act.t # "num"
    THEN <<Difference(path, exp, act, DiffTypeMismatch)>>
    ELSE IF TruncInt(exp.v) # TruncInt(act.v)
    THEN <<Difference(path, exp, act, DiffChanged)>>
    ELSE <<>>

compareNumbers(exp, act, path) ==
    IF act.t # "num"
    THEN <<Difference(path, exp, act, DiffTypeMismatch)>>
    ELSE IF exp.v # act.v
    THEN <<Difference(path, exp, act, DiffChanged)>>
    ELSE <<>>

\* the string and bool cases with the equality test inverted
compareScalar_Inverted(exp, act, path) ==
    IF act.t = exp.t
    THEN IF exp.v = act.v
         THEN <<Difference(path, exp, act, DiffChanged)>>
         ELSE <<>>
    ELSE <<Difference(path, exp, act, DiffTypeMismatch)>>

\* the string and bool cases of the type switch of compare
compareScalar(exp, act, path) ==
    IF act.t = exp.t
    THEN IF exp.v # act.v
         THEN <<Difference(path, exp, act, DiffChanged)>>
         ELSE <<>>
    ELSE <<Difference(path, exp, act, DiffTypeMismatch)>>

\* compare reporting the matcher object instead of its description
compare_RawMatcher(exp, act, path, c) ==
    IF isFieldIgnored(c, path) THEN <<>>
    ELSE IF IsMatcher(exp)
    THEN IF IsIgnore(exp) THEN <<>>
         ELSE IF ~Match(exp, act)
         THEN <<Difference(path, exp, act, DiffMatcherFailed)>>
         ELSE <<>>
    ELSE IF exp = Null /\ act = Null THEN <<>>
    ELSE IF exp = Null THEN <<Difference(path, Null, act, DiffAdded)>>
    ELSE IF act = Null THEN <<Difference(path, exp, Null, DiffRemoved)>>
    ELSE CASE exp.t = "obj" -> compareObjects(exp, act, path, c)
           [] exp.t = "arr" -> compareArrays(exp, act, path, c)
           [] exp.t = "str" -> compareScalar(exp, act, path)
           [] exp.t = "num" -> compareNumbers(exp, act, path)
           [] exp.t = "bool" -> compareScalar(exp, act, path)

compare(exp, act, path, c) ==
    IF isFieldIgnored(c, path) THEN <<>>
    ELSE IF IsMatcher(exp)
    THEN IF IsIgnore(exp) THEN <<>>
         ELSE IF ~Match(exp, act)
         THEN <<Difference(path, Str(MatcherString(exp)), act, DiffMatcherFailed)>>
         ELSE <<>>
    ELSE IF exp = Null /\ act = Null THEN <<>>
    ELSE IF exp = Null THEN <<Difference(path, Null, act, DiffAdded)>>
    ELSE IF act = Null THEN <<Difference(path, exp, Null, DiffRemoved)>>
    ELSE CASE exp.t = "obj" -> compareObjects(exp, act, path, c)
           [] exp.t = "arr" -> compareArrays(exp, act, path, c)
           [] exp.t = "str" -> compareScalar(exp, act, path)
           [] exp.t = "num" -> compareNumbers(exp, act, path)
           [] exp.t = "bool" -> compareScalar(exp, act, path)

\* the first pass comparing a missing key as if actual held null there
ExpectedPass_AbsentAsNull(ks, i, exp, act, pathc) ==
    IF i > Len(ks) THEN <<>>
    ELSE LET key == ks[i]
             path == pathc[1]
             c == pathc[2]
             childPath == path \o "." \o key
             expVal == exp.v[key]
             here ==
                 IF isFieldIgnored(c, childPath) THEN <<>>
                 ELSE IF IsIgnore(expVal) THEN <<>>
                 ELSE compare(expVal,
                              IF key \in DOMAIN act.v THEN act.v[key] ELSE Null,
                              childPath, c)
         IN  here \o ExpectedPass(ks, i + 1, exp, act, pathc)

\* first pass of compareObjects over the expected keys ks[i..]
ExpectedPass(ks, i, exp, act, pathc) ==
    IF i > Len(ks) THEN <<>>
    ELSE LET key == ks[i]
             path == pathc[1]
             c == pathc[2]
             childPath == path \o "." \o key
             expVal == exp.v[key]
             here ==
                 IF isFieldIgnored(c, childPath) THEN <<>>
                 ELSE IF IsIgnore(expVal) THEN <<>>
                 ELSE IF key \notin DOMAIN act.v
                 THEN <<Difference(childPath, expVal, Null, DiffRemoved)>>
                 ELSE compare(expVal, act.v[key], childPath, c)
         IN  here \o ExpectedPass(ks, i + 1, exp, act, pathc)

\* second pass of compareObjects: the keys present only in actual
ActualPass(exp, act, path, c) ==
    LET ks == KeysInOrder(act.v)
        extra == SelectSeq(ks, LAMBDA key :
                     ~isFieldIgnored(c, path \o "." \o key) /\ key \notin DOMAIN exp.v)
    IN  [i \in 1..Len(extra) |->
            Difference(path \o "." \o extra[i], Null, act.v[extra[i]], DiffAdded)]

\* the comparison that stops at the first difference it finds
compareObjects_FirstOnly(exp, act, path, c) ==
    IF act.t # "obj"
    THEN <<Difference(path, exp, act, DiffTypeMismatch)>>
    ELSE LET all == ExpectedPass(KeysInOrder(exp.v), 1, exp, act, <<path, c>>)
                    \o ActualPass(exp, act, path, c)
         IN  IF all = <<>> THEN <<>> ELSE <<Head(all)>>

compareObjects(exp, act, path, c) ==
    IF act.t # "obj"
    THEN <<Difference(path, exp, act, DiffTypeMismatch)>>
    ELSE ExpectedPass(KeysInOrder(exp.v), 1, exp, act, <<path, c>>)
         \o ActualPass(exp, act, path, c)

\* the dispatcher that always takes the ordered comparison
compareArrays_Ordered(exp, act, path, c) ==
    IF act.t # "arr"
    THEN <<Difference(path, exp, act, DiffTypeMismatch)>>
    ELSE compareArraysOrdered(exp.v, act.v, path, c)

compareArrays(exp, act, path, c) ==
    IF act.t # "arr"
    THEN <<Difference(path, exp, act, DiffTypeMismatch)>>
    ELSE IF shouldIgnoreArrayOrder(c, path)
    THEN compareArraysUnordered(exp.v, act.v, path, c)
    ELSE compareArraysOrdered(exp.v, act.v, path, c)

Max(a, b) == IF a >= b THEN a ELSE b

\* the loop running over the expected positions only
OrderedFrom_ExpectedOnly(i, exp, act, path, c) ==
    IF i > Len(exp) THEN <<>>
    ELSE LET childPath == IndexPath(path, i - 1)
             here ==
                 IF i > Len(act)
                 THEN <<Difference(childPath, exp[i], Null, DiffRemoved)>>
                 ELSE compare(exp[i], act[i], childPath, c)
         IN  here \o OrderedFrom(i + 1, exp, act, path, c)

\* the loop of compareArraysOrdered from (1-based) position i on
OrderedFrom(i, exp, act, path, c) ==
    IF i > Max(Len(exp), Len(act)) THEN <<>>
    ELSE LET childPath == IndexPath(path, i - 1)
             here ==
                 IF i > Len(exp)
                 THEN <<Difference(childPath, Null, act[i], DiffAdded)>>
                 ELSE IF i > Len(act)
                 THEN <<Difference(childPath, exp[i], Null, DiffRemoved)>>
                 ELSE compare(exp[i], act[i], childPath, c)
         IN  here \o OrderedFrom(i + 1, exp, act, path, c)

compareArraysOrdered(exp, act, path, c) == OrderedFrom(1, exp, act, path, c)

\* the inner loop without the test of the used flags
FirstUnused_AnyPosition(j, e, act, used, path, c) ==
    IF j > Len(act) THEN 0
    ELSE IF Len(compare(e, act[j], path, c)) = 0 THEN j
    ELSE FirstUnused_AnyPosition(j + 1, e, act, used, path, c)

\* inner loop of compareArraysUnordered: the first position j' >= j of actual
\* that is not used and compares with zero differences; 0 when there is none
FirstUnused(j, e, act, used, path, c) ==
    IF j > Len(act) THEN 0
    ELSE IF used[j] THEN FirstUnused(j + 1, e, act, used, path, c)
    ELSE IF Len(compare(e, act[j], path, c)) = 0 THEN j
    ELSE FirstUnused(j + 1, e, act, used, path, c)

\* the outer loop that never sets a used flag
PairingLoop_NoMark(i, exp, act, used, unmatched, path, c) ==
    IF i > Len(exp) THEN [used |-> used, unmatched |-> unmatched]
    ELSE LET j == FirstUnused(1, exp[i], act, used, path, c)
         IN  IF j = 0
             THEN PairingLoop_NoMark(i + 1, exp, act, used, Append(unmatched, i), path, c)
             ELSE PairingLoop_NoMark(i + 1, exp, act, used, unmatched, path, c)

\* outer loop of compareArraysUnordered from expected position i on; yields
\* the final used flags and the unmatched expected positions
PairingLoop(i, exp, act, used, unmatched, path, c) ==
    IF i > Len(exp) THEN [used |-> used, unmatched |-> unmatched]
    ELSE LET j == FirstUnused(1, exp[i], act, used, path, c)
         IN  IF j = 0
             THEN PairingLoop(i + 1, exp, act, used, Append(unmatched, i), path, c)
             ELSE PairingLoop(i + 1, exp, act, [used EXCEPT ![j] = TRUE],
                              unmatched, path, c)

\* the pairing without the length test
compareArraysUnordered_NoLengthCheck(exp, act, path, c) ==
    LET r == PairingLoop(1, exp, act, [j \in 1..Len(act) |-> FALSE], <<>>, path, c)
        unusedActual == SelectSeq([j \in 1..Len(act) |-> j], LAMBDA j : ~r.used[j])
    IN  [i \in 1..Len(r.unmatched) |->
           Difference(IndexPath(path, r.unmatched[i] - 1),
                      exp[r.unmatched[i]],
                      IF i <= Len(unusedActual) THEN act[unusedActual[i]] ELSE Null,
                      DiffChanged)]

compareArraysUnordered(exp, act, path, c) ==
    IF Len(exp) # Len(act)
    THEN <<Difference(path,
                      Str("array of length " \o ToString(Len(exp))),
                      Str("array of length " \o ToString(Len(act))),
                      DiffChanged)>>
    ELSE LET r == PairingLoop(1, exp, act, [j \in 1..Len(act) |-> FALSE], <<>>, path, c)
             unusedActual == SelectSeq([j \in 1..Len(act) |-> j], LAMBDA j : ~r.used[j])
         IN  [i \in 1..Len(r.unmatched) |->
                Difference(IndexPath(path, r.unmatched[i] - 1),
                           exp[r.unmatched[i]],
                           IF i <= Len(unusedActual) THEN act[unusedActual[i]] ELSE Null,
                           DiffChanged)]

(* The HTML comparator.                                                    *)

\* unicode.IsSpace over the characters of the generated documents
IsSpace(ch) == ch \in {" ", "\t", "\n", "\r"}

RECURSIVE TrimLeft(_)
TrimLeft(s) ==
    IF s = "" THEN ""
    ELSE IF IsSpace(SubSeq(s, 1, 1)) THEN TrimLeft(SubSeq(s, 2, Len(s)))
    ELSE s

RECURSIVE TrimRight(_)
TrimRight(s) ==
    IF s = "" THEN ""
    ELSE IF IsSpace(SubSeq(s, Len(s), Len(s))) THEN TrimRight(SubSeq(s, 1, Len(s) - 1))
    ELSE s

\* strings.TrimSpace
TrimSpace(s) == TrimRight(TrimLeft(s))

\* the length of the run of non-space characters s starts with
RECURSIVE WordLen(_)
WordLen(s) ==
    IF s = "" \/ IsSpace(SubSeq(s, 1, 1)) THEN 0
    ELSE 1 + WordLen(SubSeq(s, 2, Len(s)))

\* strings.Fields
RECURSIVE Fields(_)
Fields(s) ==
    LET t == TrimLeft(s)
    IN  IF t = "" THEN <<>>
        ELSE <<SubSeq(t, 1, WordLen(t))>> \o Fields(SubSeq(t, WordLen(t) + 1, Len(t)))

normalizeWhitespace(s) == JoinSpace(Fields(s))

Uppers == "ABCDEFGHIJKLMNOPQRSTUVWXYZ"
Lowers == "abcdefghijklmnopqrstuvwxyz"

LowerOf(ch) ==
    IF \E i \in 1..Len(Uppers) : SubSeq(Uppers, i, i) = ch
    THEN LET i == CHOOSE j \in 1..Len(Uppers) : SubSeq(Uppers, j, j) = ch
         IN  SubSeq(Lowers, i, i)
    ELSE ch

RECURSIVE ToLower(_)
ToLower(s) ==
    IF s = "" THEN "" ELSE LowerOf(SubSeq(s, 1, 1)) \o ToLower(SubSeq(s, 2, Len(s)))

\* strings.EqualFold over ASCII
EqualFold(s, t) == Len(s) = Len(t) /\ (s = t \/ ToLower(s) = ToLower(t))

\* fmt.Sprintf("%q", s) for text without characters that need escaping
Quote(s) == "\"" \o s \o "\""

\* html.Node types and HTMLNodeType
ElementNode == "ElementNode"
TextNode == "TextNode"
CommentNode == "CommentNode"
DoctypeNode == "DoctypeNode"
DocumentNode == "DocumentNode"
HTMLElement == "element"
HTMLText == "text"
HTMLComment == "comment"
HTMLDoctype == "doctype"

maxTextDisplayLen == 30

\* an html.Node: Data is the tag of an element and the name of a doctype,
\* Val the text of a text or comment node after resolveHTMLMatcherInValue
\* (a string, or a matcher on the expected side), Attr maps each attribute
\* key to its resolved value
DomNode(type, data, val, attr, children) ==
    [Type |-> type, Data |-> data, Val |-> val, Attr |-> attr, Children |-> children]

HTMLNode(type, tag, attrs, children, text, path) ==
    [Type |-> type, Tag |-> tag, Attributes |-> attrs, Children |-> children,
     Text |-> text, Path |-> path]

HTMLDifference(path, exp, act, type) ==
    [Path |-> path, Expected |-> exp, Actual |-> act, Type |-> type]

buildElementPath(parentPath, tag) ==
    IF parentPath = "" THEN tag ELSE parentPath \o " > " \o tag

buildElementPathWithIndex(parentPath, tag, index) ==
    IF parentPath = ""
    THEN IF index = 0 THEN tag ELSE tag \o "[" \o ToString(index) \o "]"
    ELSE IF index = 0 THEN parentPath \o " > " \o tag
    ELSE parentPath \o " > " \o tag \o "[" \o ToString(index) \o "]"

\* childCounts[tag], zero for a tag not yet seen
CountOf(childCounts, tag) ==
    IF tag \in DOMAIN childCounts THEN childCounts[tag] ELSE 0

RECURSIVE convertToHTMLNode(_, _)
RECURSIVE convertChildToHTMLNode(_, _, _)
RECURSIVE ConvertChildren(_, _, _)
RECURSIVE ConvertTopLevel(_)

\* the document children converted with an empty parent path, nil dropped
ConvertTopLevel(cs) ==
    IF cs = <<>> THEN <<>>
    ELSE LET child == convertToHTMLNode(Head(cs), "")
         IN  (IF child = Null THEN <<>> ELSE <<child>>) \o ConvertTopLevel(Tail(cs))

convertToHTMLNode(n, parentPath) ==
    CASE n.Type = ElementNode ->
            LET path == buildElementPath(parentPath, n.Data)
            IN  HTMLNode(HTMLElement, n.Data, n.Attr,
                         ConvertChildren(n.Children, path, EmptyMap), Null, path)
      [] n.Type = TextNode ->
            IF n.Val.t = "str" /\ TrimSpace(n.Val.v) = "" THEN Null
            ELSE HTMLNode(HTMLText, "", EmptyMap, <<>>, n.Val, parentPath \o " (text)")
      [] n.Type = CommentNode ->
            HTMLNode(HTMLComment, "", EmptyMap, <<>>, n.Val, parentPath \o " (comment)")
      [] n.Type = DoctypeNode ->
            HTMLNode(HTMLDoctype, n.Data, EmptyMap, <<>>, Null, "<!DOCTYPE>")
      [] n.Type = DocumentNode ->
            LET rel == SelectSeq(n.Children,
                                 LAMBDA c : c.Type \in {ElementNode, DoctypeNode})
            IN  IF rel # <<>> /\ Head(rel).Type = ElementNode
                THEN convertToHTMLNode(Head(rel), parentPath)
                ELSE HTMLNode(HTMLElement, "#document", EmptyMap,
                              ConvertTopLevel(n.Children), Null, "")
      [] OTHER -> Null

convertChildToHTMLNode(n, parentPath, childCounts) ==
    IF n.Type = ElementNode
    THEN LET path == buildElementPathWithIndex(parentPath, n.Data,
                                               CountOf(childCounts, n.Data))
         IN  HTMLNode(HTMLElement, n.Data, n.Attr,
                      ConvertChildren(n.Children, path, EmptyMap), Null, path)
    ELSE convertToHTMLNode(n, parentPath)

\* the loop over the children of an element: every child converted with the
\* counts of the tags seen before it, nil results dropped
ConvertChildren(cs, path, childCounts) ==
    IF cs = <<>> THEN <<>>
    ELSE LET c == Head(cs)
             child == convertChildToHTMLNode(c, path, childCounts)
             counts ==
                 IF c.Type = ElementNode
                 THEN [t \in DOMAIN childCounts \cup {c.Data} |->
                          IF t = c.Data THEN CountOf(childCounts, t) + 1
                          ELSE childCounts[t]]
                 ELSE childCounts
         IN  (IF child = Null THEN <<>> ELSE <<child>>)
             \o ConvertChildren(Tail(cs), path, counts)

HTMLConfig(comments, whitespace, order, orderPaths, elements, attrs, attrPaths) ==
    [IgnoreComments |-> comments, PreserveWhitespace |-> whitespace,
     IgnoreChildOrder |-> order, IgnoreChildOrderPaths |-> orderPaths,
     IgnoredElements |-> elements, IgnoredAttributes |-> attrs,
     IgnoredAttributePaths |-> attrPaths]

shouldIgnoreChildOrder(c, path) ==
    \/ c.IgnoreChildOrder
    \/ \E i \in 1..Len(c.IgnoreChildOrderPaths) :
          LET p == c.IgnoreChildOrderPaths[i]
          IN  p = path \/ HasPrefix(path, p \o " > ")

isElementIgnored(c, tag) ==
    \E i \in 1..Len(c.IgnoredElements) : EqualFold(c.IgnoredElements[i], tag)

isAttributeIgnored(c, path, attr) ==
    \/ \E i \in 1..Len(c.IgnoredAttributes) : EqualFold(c.IgnoredAttributes[i], attr)
    \/ \E i \in 1..Len(c.IgnoredAttributePaths) :
          c.IgnoredAttributePaths[i] = path \o "@" \o attr

\* getString of a string, a matcher or nil
getString(v) ==
    CASE v.t = "str" -> v.v
      [] v.t = "matcher" -> MatcherString(v)
      [] OTHER -> ""

getTextContent(node) == IF node = Null THEN "" ELSE getString(node.Text)

formatAttrValue(v) ==
    CASE v = Null -> "(nil)"
      [] v.t = "matcher" -> MatcherString(v)
      [] OTHER -> Quote(getString(v))

describeNode(node) ==
    CASE node = Null -> "(nil)"
      [] node.Type = HTMLElement -> "<" \o node.Tag \o ">"
      [] node.Type = HTMLText ->
            LET text == getTextContent(node)
            IN  IF Len(text) > maxTextDisplayLen
                THEN Quote(SubSeq(text, 1, maxTextDisplayLen)) \o "..."
                ELSE Quote(text)
      [] node.Type = HTMLComment -> "<!-- comment -->"
      [] node.Type = HTMLDoctype -> "<!DOCTYPE>"
      [] OTHER -> "(unknown)"

describeNodeType(t) ==
    CASE t = HTMLElement -> "element"
      [] t = HTMLText -> "text"
      [] t = HTMLComment -> "comment"
      [] t = HTMLDoctype -> "doctype"
      [] OTHER -> "unknown"

\* the index argument is not used
buildChildPath(parentPath, node, index) ==
    IF node.Type = HTMLText THEN parentPath \o " (text)"
    ELSE IF node.Type = HTMLComment THEN parentPath \o " (comment)"
    ELSE IF parentPath = "" THEN node.Tag
    ELSE parentPath \o " > " \o node.Tag

\* filterSignificantChildren keeping the comments
filterSignificantChildren_KeepComments(nodes, c) ==
    SelectSeq(nodes, LAMBDA node :
        /\ node # Null
        /\ ~(node.Type = HTMLElement /\ isElementIgnored(c, node.Tag))
        /\ ~(/\ node.Type = HTMLText /\ ~c.PreserveWhitespace
             /\ TrimSpace(getTextContent(node)) = ""))

filterSignificantChildren(nodes, c) ==
    SelectSeq(nodes, LAMBDA node :
        /\ node # Null
        /\ ~(node.Type = HTMLElement /\ isElementIgnored(c, node.Tag))
        /\ ~(node.Type = HTMLComment /\ c.IgnoreComments)
        /\ ~(/\ node.Type = HTMLText /\ ~c.PreserveWhitespace
             /\ TrimSpace(getTextContent(node)) = ""))

RECURSIVE compareHTMLNodes(_, _, _, _)
RECURSIVE compareHTMLChildren(_, _, _, _)
RECURSIVE compareChildrenOrdered(_, _, _, _)
RECURSIVE compareChildrenUnordered(_, _, _, _)
RECURSIVE ChildrenFrom(_, _, _, _, _)
RECURSIVE FirstUnusedChild(_, _, _, _, _, _)
RECURSIVE ChildPairingLoop(_, _, _, _, _, _, _)

\* first loop of compareHTMLAttributes, over the expected attributes
RECURSIVE ExpectedAttrs(_, _, _, _, _)
ExpectedAttrs(names, exp, act, path, c) ==
    IF names = <<>> THEN <<>>
    ELSE LET name == Head(names)
             expVal == exp[name]
             attrPath == path \o " @" \o name
             here ==
                 IF isAttributeIgnored(c, path, name) THEN <<>>
                 ELSE IF IsIgnore(expVal) THEN <<>>
                 ELSE IF name \notin DOMAIN act
                 THEN <<HTMLDifference(attrPath, Str(formatAttrValue(expVal)), Null,
                                       DiffRemoved)>>
                 ELSE IF IsMatcher(expVal)
                 THEN IF Match(expVal, Str(getString(act[name]))) THEN <<>>
                      ELSE <<HTMLDifference(attrPath, Str(MatcherString(expVal)),
                                            Str(getString(act[name])),
                                            DiffMatcherFailed)>>
                 ELSE IF getString(expVal) # getString(act[name])
                 THEN <<HTMLDifference(attrPath, Str(getString(expVal)),
                                       Str(getString(act[name])), DiffChanged)>>
                 ELSE <<>>
         IN  here \o ExpectedAttrs(Tail(names), exp, act, path, c)

\* second loop of compareHTMLAttributes, over the actual attributes
RECURSIVE ActualAttrs(_, _, _, _, _)
ActualAttrs(names, exp, act, path, c) ==
    IF names = <<>> THEN <<>>
    ELSE LET name == Head(names)
             here ==
                 IF isAttributeIgnored(c, path, name) THEN <<>>
                 ELSE IF name \notin DOMAIN exp
                 THEN <<HTMLDifference(path \o " @" \o name, Null,
                                       Str(formatAttrValue(act[name])), DiffAdded)>>
                 ELSE <<>>
         IN  here \o ActualAttrs(Tail(names), exp, act, path, c)

compareHTMLAttributes(exp, act, path, c) ==
    ExpectedAttrs(KeysInOrder(exp), exp, act, path, c)
    \o ActualAttrs(KeysInOrder(act), exp, act, path, c)

\* compareHTMLNodes going on to the attributes and children after a tag
\* mismatch
compareHTMLNodes_Descend(exp, act, path, c) ==
    IF isElementIgnored(c, exp.Tag) THEN <<>>
    ELSE IF exp.Type = HTMLText /\ IsMatcher(exp.Text)
    THEN IF IsIgnore(exp.Text) THEN <<>>
         ELSE IF Match(exp.Text, Str(getTextContent(act))) THEN <<>>
         ELSE <<HTMLDifference(path, Str(MatcherString(exp.Text)),
                               Str(getTextContent(act)), DiffMatcherFailed)>>
    ELSE IF exp.Type # act.Type
    THEN <<HTMLDifference(path, Str(describeNodeType(exp.Type)),
                          Str(describeNodeType(act.Type)), DiffTypeMismatch)>>
    ELSE IF exp.Type = HTMLElement
    THEN (IF ~EqualFold(exp.Tag, act.Tag)
          THEN <<HTMLDifference(path, Str("<" \o exp.Tag \o ">"),
                                Str("<" \o act.Tag \o ">"), DiffChanged)>>
          ELSE <<>>)
         \o compareHTMLAttributes(exp.Attributes, act.Attributes, path, c)
         \o compareHTMLChildren(exp.Children, act.Children, path, c)
    ELSE IF getTextContent(exp) # getTextContent(act)
    THEN <<HTMLDifference(path, Str(getTextContent(exp)), Str(getTextContent(act)),
                          DiffChanged)>>
    ELSE <<>>

\* the branches for a TemplateString text or attribute value are left out:
\* the type is not defined in these sources and convertToHTMLNode yields
\* strings and matchers only
compareHTMLNodes(exp, act, path, c) ==
    IF isElementIgnored(c, exp.Tag) THEN <<>>
    ELSE IF exp.Type = HTMLText /\ IsMatcher(exp.Text)
    THEN IF IsIgnore(exp.Text) THEN <<>>
         ELSE IF Match(exp.Text, Str(getTextContent(act))) THEN <<>>
         ELSE <<HTMLDifference(path, Str(MatcherString(exp.Text)),
                               Str(getTextContent(act)), DiffMatcherFailed)>>
    ELSE IF exp.Type # act.Type
    THEN <<HTMLDifference(path, Str(describeNodeType(exp.Type)),
                          Str(describeNodeType(act.Type)), DiffTypeMismatch)>>
    ELSE CASE exp.Type = HTMLElement ->
                 IF ~EqualFold(exp.Tag, act.Tag)
                 THEN <<HTMLDifference(path, Str("<" \o exp.Tag \o ">"),
                                       Str("<" \o act.Tag \o ">"), DiffChanged)>>
                 ELSE compareHTMLAttributes(exp.Attributes, act.Attributes, path, c)
                      \o compareHTMLChildren(exp.Children, act.Children, path, c)
           [] exp.Type = HTMLText ->
                 LET expText == IF c.PreserveWhitespace THEN getTextContent(exp)
                                ELSE normalizeWhitespace(getTextContent(exp))
                     actText == IF c.PreserveWhitespace THEN getTextContent(act)
                                ELSE normalizeWhitespace(getTextContent(act))
                 IN  IF expText # actText
                     THEN <<HTMLDifference(path, Str(expText), Str(actText), DiffChanged)>>
                     ELSE <<>>
           [] exp.Type = HTMLComment ->
                 IF ~c.IgnoreComments /\ getString(exp.Text) # getString(act.Text)
                 THEN <<HTMLDifference(path, Str(getString(exp.Text)),
                                       Str(getString(act.Text)), DiffChanged)>>
                 ELSE <<>>
           [] exp.Type = HTMLDoctype ->
                 IF ~EqualFold(exp.Tag, act.Tag)
                 THEN <<HTMLDifference(path, Str(exp.Tag), Str(act.Tag), DiffChanged)>>
                 ELSE <<>>
           [] OTHER -> <<>>

compareHTMLChildren(exp, act, path, c) ==
    IF shouldIgnoreChildOrder(c, path)
    THEN compareChildrenUnordered(filterSignificantChildren(exp, c),
                                  filterSignificantChildren(act, c), path, c)
    ELSE compareChildrenOrdered(filterSignificantChildren(exp, c),
                                filterSignificantChildren(act, c), path, c)

\* the loop of compareChildrenOrdered from (1-based) position i on
ChildrenFrom(i, exp, act, path, c) ==
    IF i > Max(Len(exp), Len(act)) THEN <<>>
    ELSE LET here ==
                 IF i > Len(exp)
                 THEN <<HTMLDifference(buildChildPath(path, act[i], i - 1), Null,
                                       Str(describeNode(act[i])), DiffAdded)>>
                 ELSE IF i > Len(act)
                 THEN <<HTMLDifference(buildChildPath(path, exp[i], i - 1),
                                       Str(describeNode(exp[i])), Null, DiffRemoved)>>
                 ELSE compareHTMLNodes(exp[i], act[i],
                                       buildChildPath(path, exp[i], i - 1), c)
         IN  here \o ChildrenFrom(i + 1, exp, act, path, c)

compareChildrenOrdered(exp, act, path, c) == ChildrenFrom(1, exp, act, path, c)

\* inner loop of compareChildrenUnordered: the first position j' >= j of
\* actual that is not used and compares with zero differences; 0 when none
FirstUnusedChild(j, e, act, used, path, c) ==
    IF j > Len(act) THEN 0
    ELSE IF used[j] THEN FirstUnusedChild(j + 1, e, act, used, path, c)
    ELSE IF Len(compareHTMLNodes(e, act[j], path, c)) = 0 THEN j
    ELSE FirstUnusedChild(j + 1, e, act, used, path, c)

\* outer loop of compareChildrenUnordered from expected position i on
ChildPairingLoop(i, exp, act, used, unmatched, path, c) ==
    IF i > Len(exp) THEN [used |-> used, unmatched |-> unmatched]
    ELSE LET j == FirstUnusedChild(1, exp[i], act, used, path, c)
         IN  IF j = 0
             THEN ChildPairingLoop(i + 1, exp, act, used, Append(unmatched, i), path, c)
             ELSE ChildPairingLoop(i + 1, exp, act, [used EXCEPT ![j] = TRUE],
                                   unmatched, path, c)

compareChildrenUnordered(exp, act, path, c) ==
    IF Len(exp) # Len(act)
    THEN <<HTMLDifference(path,
                          Str(ToString(Len(exp)) \o " children"),
                          Str(ToString(Len(act)) \o " children"),
                          DiffChanged)>>
    ELSE LET r == ChildPairingLoop(1, exp, act, [j \in 1..Len(act) |-> FALSE], <<>>,
                                   path, c)
             unusedActual == SelectSeq([j \in 1..Len(act) |-> j], LAMBDA j : ~r.used[j])
         IN  [i \in 1..Len(r.unmatched) |->
                HTMLDifference(buildChildPath(path, exp[r.unmatched[i]], r.unmatched[i] - 1),
                               Str(describeNode(exp[r.unmatched[i]])),
                               IF i <= Len(unusedActual)
                               THEN Str(describeNode(act[unusedActual[i]]))
                               ELSE Null,
                               DiffChanged)]

compareHTML(exp, act, c) ==
    IF exp = Null /\ act = Null THEN <<>>
    ELSE IF exp = Null
    THEN <<HTMLDifference(act.Path, Null, Str(describeNode(act)), DiffAdded)>>
    ELSE IF act = Null
    THEN <<HTMLDifference(exp.Path, Str(describeNode(exp)), Null, DiffRemoved)>>
    ELSE compareHTMLNodes(exp, act, exp.Path, c)

(* Inputs of a JSON assertion.                                             *)

\* longest array of the generated documents
MaxLen == 2

\* longest array of the reordered documents
MaxPermLen == 3

\* object keys of the generated documents
Keys == {"a", "b"}

\* the `range` orders a run may see; each pair of keys occurs in both orders
KeyOrders == <<(<<"a", "ab", "b">>), (<<"b", "ab", "a">>)>>

ObjectsOf(S, K) == {Obj(m) : m \in UNION {[D -> S] : D \in SUBSET K}}
ArraysOf(S, n) == {Arr(a) : a \in UNION {[1..k -> S] : k \in 0..n}}

\* scalar documents of the actual side, and of the expected side
LeavesA == {Null, Bool(TRUE), Bool(FALSE), Num(2), Num(3), Str("x"), Str("y")}
Matchers == {AnyString, AnyInt, AnyFloat, AnyBool, AnyValue, Ignore,
             Regex("^x"), OneOf(<<"x", "z">>)}
LeavesE == LeavesA \cup Matchers

\* members of the generated objects and arrays
ElemA == {Null, Num(2), Str("x"), Str("y")}
ElemE == ElemA \cup {AnyString, AnyValue, Ignore}
ArrElemA == {Null, Num(2), Str("x")}
ArrElemE == ArrElemA \cup {AnyString, Ignore}

\* documents of nesting depth at most one
FlatObjA == ObjectsOf(ElemA, Keys)
FlatObjE == ObjectsOf(ElemE, Keys)
FlatArrA == ArraysOf(ArrElemA, MaxLen)
FlatArrE == ArraysOf(ArrElemE, MaxLen)
FlatA == LeavesA \cup FlatObjA \cup FlatArrA

\* members of the containers put below a wrapper
InnerElemA == {Num(2), Str("x")}
InnerElemE == InnerElemA \cup {Ignore}

\* a wrapper is the path of object keys ("a", "ab", "b") and array
\* positions ("[]") that leads from the root to the inner document
Wrappers == {<<"a">>, <<"ab">>, <<"b">>, <<"[]">>, <<"a", "b">>, <<"a", "[]">>}

RECURSIVE Wrap(_, _)
Wrap(w, x) ==
    IF w = <<>> THEN x
    ELSE IF Head(w) = "[]" THEN Arr(<<Wrap(Tail(w), x)>>)
    ELSE Obj([k \in {Head(w)} |-> Wrap(Tail(w), x)])

\* the path compare is called with for the document below wrapper w
RECURSIVE WrapPath(_, _)
WrapPath(path, w) ==
    IF w = <<>> THEN path
    ELSE IF Head(w) = "[]" THEN WrapPath(IndexPath(path, 0), Tail(w))
    ELSE WrapPath(path \o "." \o Head(w), Tail(w))

\* members of the reordered arrays: a scalar, an object, and two arrays that
\* are reorderings of each other
PermElems == {Num(2), Obj([k \in {"b"} |-> Num(2)]),
              Arr(<<Num(2), Str("x")>>), Arr(<<Str("x"), Num(2)>>)}

\* the sequences of pairwise distinct members, and the reorderings of one
DistinctSeqs(S, n) ==
    UNION {{a \in [1..k -> S] : \A i, j \in 1..k : i # j => a[i] # a[j]} : k \in 0..n}
Reorderings(a) ==
    {[i \in 1..Len(a) |-> a[f[i]]] :
        f \in {g \in [1..Len(a) -> 1..Len(a)] : \A i, j \in 1..Len(a) : i # j => g[i] # g[j]}}

\* flat (expected, actual) pairs: a scalar or matcher against every flat
\* document and an object or array against every scalar; an object against
\* every object and one array; an array against every array and one object
LeafPairs ==
    (LeavesE \X FlatA) \cup ((FlatObjE \cup FlatArrE) \X LeavesA)
ObjectPairs == FlatObjE \X (FlatObjA \cup {Arr(<<Num(2)>>)})
ArrayPairs == FlatArrE \X (FlatArrA \cup {Obj(EmptyMap)})

\* pairs of objects, and pairs of arrays, below every wrapper
NestedObjectPairs ==
    {<<Wrap(w, p[1]), Wrap(w, p[2])>> :
        w \in Wrappers,
        p \in ObjectsOf(InnerElemE, Keys) \X ObjectsOf(InnerElemA, Keys)}
NestedArrayPairs ==
    {<<Wrap(w, p[1]), Wrap(w, p[2])>> :
        w \in Wrappers,
        p \in ArraysOf(InnerElemE, MaxLen) \X ArraysOf(InnerElemA, MaxLen)}

\* every array of distinct members against each of its reorderings, below
\* every wrapper
PermPairs ==
    UNION {{<<Wrap(w, Arr(a)), Wrap(w, Arr(b))>> : w \in Wrappers, b \in Reorderings(a)} :
              a \in DistinctSeqs(PermElems, MaxPermLen)}

\* configurations newConfig builds from the options: IgnoreArrayOrder() or
\* not, IgnoreArrayOrderAt("$.a") or not, and one IgnoreFields entry or none
ConfigsOf(orders, orderPaths, fields) ==
    {Config(o, ps, fs) : o \in orders, ps \in orderPaths, fs \in fields}
OrderConfigs == ConfigsOf(BOOLEAN, {<<>>}, {<<>>})
FlatConfigs == ConfigsOf(BOOLEAN, {<<>>}, {<<>>, <<"b">>, <<"$.a">>})
NestedConfigs ==
    ConfigsOf(BOOLEAN, {<<>>}, {<<>>, <<"b">>, <<"$.a.b">>, <<"$[0].b">>})
    \cup ConfigsOf({FALSE}, {<<"$.a">>}, {<<>>, <<"b">>})
PermConfigs == OrderConfigs \cup ConfigsOf({FALSE}, {<<"$.a">>}, {<<>>})
Configs == FlatConfigs \cup NestedConfigs \cup PermConfigs

\* the inputs of a run: an (expected, actual) pair, a configuration and the
\* order in which maps are ranged over; both orders where a generated object
\* has two keys
Cases ==
    (LeafPairs \X OrderConfigs \X {KeyOrders[1]})
    \cup (ObjectPairs \X FlatConfigs \X {KeyOrders[1], KeyOrders[2]})
    \cup (ArrayPairs \X OrderConfigs \X {KeyOrders[1]})
    \cup (NestedObjectPairs \X NestedConfigs \X {KeyOrders[1], KeyOrders[2]})
    \cup (NestedArrayPairs \X NestedConfigs \X {KeyOrders[1]})
    \cup (PermPairs \X PermConfigs \X {KeyOrders[1]})

InitJSON ==
    /\ pc = "start"
    /\ mode = "json"
    /\ \E cs \in Cases :
          /\ expected = cs[1][1] /\ actual = cs[1][2]
          /\ cfg = cs[2]
          /\ keyOrder = cs[3]
    /\ diffs = <<>>
    /\ hexp = Null /\ hact = Null /\ hcfg = Null /\ hdiffs = <<>>
    /\ DiffIdle /\ ParseIdle /\ CallIdle

\* AssertJSON from the parsed documents to the comparison result:
\* diffs := compare(expected.Data, actualData, "$", cfg)
Compare ==
    /\ pc = "start"
    /\ mode = "json"
    /\ diffs' = compare(expected, actual, "$", cfg)
    /\ pc' = "done"
    /\ UNCHANGED <<mode, expected, actual, cfg, keyOrder, hexp, hact, hcfg, hdiffs>>
    /\ UNCHANGED diffVars
    /\ UNCHANGED parseVars
    /\ UNCHANGED callVars

(* Inputs of an HTML assertion.                                            *)

\* most children of the generated body and div elements
MaxKids == 2

El(tag, attr, children) == DomNode(ElementNode, tag, Null, attr, children)
Txt(v) == DomNode(TextNode, "", v, EmptyMap, <<>>)
Cmt(s) == DomNode(CommentNode, "", Str(s), EmptyMap, <<>>)
Doctype == DomNode(DoctypeNode, "html", Null, EmptyMap, <<>>)

\* the tree html.Parse builds around the children of the body
Document(withDoctype, kids) ==
    DomNode(DocumentNode, "", Null, EmptyMap,
            (IF withDoctype THEN <<Doctype>> ELSE <<>>)
            \o <<El("html", EmptyMap,
                    <<El("head", EmptyMap, <<>>), El("body", EmptyMap, kids)>>)>>)

\* child lists of at most n members of S; the parser never leaves two text
\* nodes next to each other
KidSeqs(S, n) ==
    UNION {{s \in [1..k -> S] :
               \A i \in 1..(k - 1) : ~(s[i].Type = TextNode /\ s[i + 1].Type = TextNode)} :
              k \in 0..n}

\* children of the body on the actual and on the expected side
KidsA == {El("p", EmptyMap, <<Txt(Str("x"))>>), El("span", EmptyMap, <<>>),
          Txt(Str("x")), Cmt("c")}
KidsE == KidsA \cup {Txt(AnyString)}

\* children of a div below the body
InnerKidsA == {El("p", EmptyMap, <<>>), Txt(Str(" ")), Txt(Str("x"))}
InnerKidsE == InnerKidsA \cup {Txt(Ignore)}

\* attribute maps over the names id and class
AttrNames == {"class", "id"}
AttrOrders == {<<"class", "id">>, <<"id", "class">>}
AttrMaps(S) == UNION {[D -> S] : D \in SUBSET AttrNames}

\* texts of a paragraph
Texts == {"x", " x", "x y", "x  y", "y"}

HDefault == HTMLConfig(FALSE, FALSE, FALSE, <<>>, <<>>, <<>>, <<>>)

KidConfigs ==
    {HDefault,
     [HDefault EXCEPT !.IgnoreChildOrder = TRUE],
     [HDefault EXCEPT !.IgnoreChildOrderPaths = <<"html > body">>],
     [HDefault EXCEPT !.IgnoreComments = TRUE],
     [HDefault EXCEPT !.PreserveWhitespace = TRUE],
     [HDefault EXCEPT !.IgnoredElements = <<"SPAN">>],
     [HDefault EXCEPT !.IgnoreChildOrderPaths = <<"html > body">>, !.IgnoreComments = TRUE],
     [HDefault EXCEPT !.IgnoreChildOrderPaths = <<"html > body">>,
                      !.IgnoredElements = <<"SPAN">>]}

InnerConfigs ==
    {HDefault,
     [HDefault EXCEPT !.IgnoreChildOrder = TRUE],
     [HDefault EXCEPT !.IgnoreChildOrderPaths = <<"html > body">>],
     [HDefault EXCEPT !.IgnoreChildOrderPaths = <<"html > body > div">>],
     [HDefault EXCEPT !.PreserveWhitespace = TRUE]}

AttrConfigs ==
    {HDefault,
     [HDefault EXCEPT !.IgnoredAttributes = <<"CLASS">>],
     [HDefault EXCEPT !.IgnoredAttributePaths = <<"html > body > p@id">>]}

TextConfigs == {HDefault, [HDefault EXCEPT !.PreserveWhitespace = TRUE]}

HTMLConfigs == KidConfigs \cup InnerConfigs \cup AttrConfigs \cup TextConfigs

\* (expected, actual) documents that differ in the children of the body
KidPairs ==
    {<<Document(FALSE, e), Document(FALSE, a)>> :
        e \in KidSeqs(KidsE, MaxKids), a \in KidSeqs(KidsA, MaxKids)}

\* documents that differ in the children of a div below the body
InnerPairs ==
    {<<Document(FALSE, <<El("div", EmptyMap, e)>>),
       Document(FALSE, <<El("div", EmptyMap, a)>>)>> :
        e \in KidSeqs(InnerKidsE, MaxKids), a \in KidSeqs(InnerKidsA, MaxKids)}

\* documents that differ in the spans of a div below the body
Span(text) == El("span", EmptyMap, <<Txt(Str(text))>>)
SpanSeqs == UNION {[1..n -> {Span("First"), Span("Second")}] : n \in 1..MaxKids}
SiblingPairs ==
    {<<Document(FALSE, <<El("div", EmptyMap, e)>>),
       Document(FALSE, <<El("div", EmptyMap, a)>>)>> : e \in SpanSeqs, a \in SpanSeqs}

\* documents whose body holds one element each, with a tag, a class
\* attribute and a text of its own
TagKids ==
    {El(tag, a, k) : tag \in {"p", "span"},
                     a \in {EmptyMap, "class" :> Str("x"), "class" :> Str("y")},
                     k \in {<<>>, <<Txt(Str("x"))>>, <<Txt(Str("y"))>>}}
TagPairs ==
    {<<Document(FALSE, <<e>>), Document(FALSE, <<a>>)>> : e \in TagKids, a \in TagKids}

\* documents whose bodies differ in spans and comments, with the
\* configurations that ignore them
IgnoredKids == {El("p", EmptyMap, <<Txt(Str("x"))>>), El("span", EmptyMap, <<>>),
                El("span", EmptyMap, <<Txt(Str("y"))>>), Cmt("c"), Cmt("d")}
IgnoredPairs ==
    {<<Document(FALSE, e), Document(FALSE, a)>> :
        e \in KidSeqs(IgnoredKids, MaxKids), a \in KidSeqs(IgnoredKids, MaxKids)}
IgnoringConfigs ==
    {[HDefault EXCEPT !.IgnoredElements = <<"span">>],
     [HDefault EXCEPT !.IgnoreComments = TRUE],
     [HDefault EXCEPT !.IgnoredElements = <<"span">>, !.IgnoreComments = TRUE,
                      !.IgnoreChildOrder = TRUE]}

\* documents that differ in the attributes of a paragraph
AttrPairs ==
    {<<Document(FALSE, <<El("p", e, <<>>)>>), Document(FALSE, <<El("p", a, <<>>)>>)>> :
        e \in AttrMaps({Str("x"), Str("y"), AnyString, Ignore}),
        a \in AttrMaps({Str("x"), Str("y")})}

\* documents that differ in the text of a paragraph
TextPairs ==
    {<<Document(FALSE, <<El("p", EmptyMap, <<Txt(Str(s))>>)>>),
       Document(FALSE, <<El("p", EmptyMap, <<Txt(Str(t))>>)>>)>> :
        s \in Texts, t \in Texts}

\* documents with and without a doctype
DoctypePairs ==
    {<<Document(d, e), Document(f, a)>> :
        d \in BOOLEAN, f \in BOOLEAN,
        e \in KidSeqs({Cmt("c")}, 1), a \in KidSeqs({Cmt("c")}, 1)}

\* the inputs of a run: the parsed documents, a configuration and the order
\* in which attribute maps are ranged over
HTMLCases ==
    (KidPairs \X KidConfigs \X {<<"class", "id">>})
    \cup (InnerPairs \X InnerConfigs \X {<<"class", "id">>})
    \cup (AttrPairs \X AttrConfigs \X AttrOrders)
    \cup (TextPairs \X TextConfigs \X {<<"class", "id">>})
    \cup (DoctypePairs \X {HDefault} \X {<<"class", "id">>})
    \cup (SiblingPairs \X {HDefault} \X {<<"class", "id">>})
    \cup (TagPairs \X {HDefault} \X {<<"class", "id">>})
    \cup (IgnoredPairs \X IgnoringConfigs \X {<<"class", "id">>})

\* the state after ParseExpectedHTMLFile and parseActualHTMLBytes
InitHTML ==
    /\ pc = "start"
    /\ mode = "html"
    /\ \E cs \in HTMLCases :
          /\ hexp = convertToHTMLNode(cs[1][1], "")
          /\ hact = convertToHTMLNode(cs[1][2], "")
          /\ hcfg = cs[2]
          /\ keyOrder = cs[3]
    /\ hdiffs = <<>>
    /\ expected = Null /\ actual = Null /\ cfg = Null /\ diffs = <<>>
    /\ DiffIdle /\ ParseIdle /\ CallIdle

\* AssertHTML from the parsed documents to the comparison result:
\* diffs := compareHTML(expected.Root, actualNode, cfg)
CompareHTML ==
    /\ pc = "start"
    /\ mode = "html"
    /\ hdiffs' = compareHTML(hexp, hact, hcfg)
    /\ pc' = "done"
    /\ UNCHANGED <<mode, expected, actual, cfg, keyOrder, diffs, hexp, hact, hcfg>>
    /\ UNCHANGED diffVars
    /\ UNCHANGED parseVars
    /\ UNCHANGED callVars

(* The line differ (computeDiff) and the colour helpers.                   *)

diffEqual == "equal"
diffDelete == "delete"
diffInsert == "insert"

\* one entry of the ops slice
DiffOp(op, line) == [op |-> op, line |-> line]

dpTable_UpOnly(X, Y) ==
    LET dp[i \in 0..Len(X), j \in 0..Len(Y)] ==
            IF i = 0 \/ j = 0 THEN 0
            ELSE IF X[i] = Y[j] THEN dp[i - 1, j - 1] + 1
            ELSE dp[i - 1, j]
    IN  dp

\* the LCS matrix dp of computeDiff: row 0 and column 0 stay zero
dpTable(X, Y) ==
    LET dp[i \in 0..Len(X), j \in 0..Len(Y)] ==
            IF i = 0 \/ j = 0 THEN 0
            ELSE IF X[i] = Y[j] THEN dp[i - 1, j - 1] + 1
            ELSE Max(dp[i - 1, j], dp[i, j - 1])
    IN  dp

\* the backtracking loop that takes the Delete case when both neighbours of
\* the table hold the same length
RECURSIVE Backtrack_DeleteOnTie(_, _, _, _, _)
Backtrack_DeleteOnTie(X, Y, dp, i, j) ==
    IF ~(i > 0 \/ j > 0) THEN <<>>
    ELSE IF i > 0 /\ j > 0 /\ X[i] = Y[j]
         THEN <<DiffOp(diffEqual, X[i])>> \o Backtrack_DeleteOnTie(X, Y, dp, i - 1, j - 1)
    ELSE IF j > 0 /\ (i = 0 \/ dp[i, j - 1] > dp[i - 1, j])
         THEN <<DiffOp(diffInsert, Y[j])>> \o Backtrack_DeleteOnTie(X, Y, dp, i, j - 1)
    ELSE <<DiffOp(diffDelete, X[i])>> \o Backtrack_DeleteOnTie(X, Y, dp, i - 1, j)

\* the backtracking loop of computeDiff from (i, j): the ops in the order
\* they are appended.  One of the three cases holds whenever i > 0 or j > 0.
RECURSIVE Backtrack(_, _, _, _, _)
Backtrack(X, Y, dp, i, j) ==
    IF ~(i > 0 \/ j > 0) THEN <<>>
    ELSE IF i > 0 /\ j > 0 /\ X[i] = Y[j]
         THEN <<DiffOp(diffEqual, X[i])>> \o Backtrack(X, Y, dp, i - 1, j - 1)
    ELSE IF j > 0 /\ (i = 0 \/ dp[i, j - 1] >= dp[i - 1, j])
         THEN <<DiffOp(diffInsert, Y[j])>> \o Backtrack(X, Y, dp, i, j - 1)
    ELSE <<DiffOp(diffDelete, X[i])>> \o Backtrack(X, Y, dp, i - 1, j)

Reverse_Identity(s) == s

\* for k := len(ops) - 1; k >= 0; k-- : the ops are read last to first
Reverse(s) == [k \in 1..Len(s) |-> s[Len(s) + 1 - k]]

\* the operations of computeDiff(expected, actual) in output order
diffOps(X, Y) == Reverse(Backtrack(X, Y, dpTable(X, Y), Len(X), Len(Y)))

\* ESC stands for the byte \033 of the ANSI colour codes
ESC == "^["
colorRed == ESC \o "[31m"
colorGreen == ESC \o "[32m"
colorReset == ESC \o "[0m"

\* useColors on the cache value c: the value returned, and the cache afterwards
useColors(c, detected) ==
    IF c # "nil" THEN [ret |-> (c = "true"), cache |-> c]
    ELSE [ret |-> detected, cache |-> IF detected THEN "true" ELSE "false"]

colorize(text, color, use) == IF ~use THEN text ELSE color \o text \o colorReset

\* the output loop of computeDiff over the ops from position k on, run by one
\* caller alone: the lines appended and the colour cache left behind
RECURSIVE Render(_, _, _, _)
Render(os, k, c, detected) ==
    IF k > Len(os) THEN [lines |-> <<>>, cache |-> c]
    ELSE IF os[k].op = diffEqual
         THEN LET rest == Render(os, k + 1, c, detected)
              IN  [lines |-> <<"  " \o os[k].line>> \o rest.lines, cache |-> rest.cache]
    ELSE LET u == useColors(c, detected)
             rest == Render(os, k + 1, u.cache, detected)
             text == IF os[k].op = diffDelete
                     THEN colorize("- " \o os[k].line, colorRed, u.ret)
                     ELSE colorize("+ " \o os[k].line, colorGreen, u.ret)
         IN  [lines |-> <<text>> \o rest.lines, cache |-> rest.cache]

(* Inputs of the line differ.                                              *)

MaxLines == 3
LineAlphabet == {"a", "b", "c"}
LineSeqs == UNION {[1..n -> LineAlphabet] : n \in 0..MaxLines}

InitDiff ==
    /\ pc = "start"
    /\ mode = "diff"
    /\ lexp \in LineSeqs /\ lact \in LineSeqs
    /\ env \in BOOLEAN
    /\ colorsEnabled = "nil"
    /\ ops = <<>> /\ result = <<>> /\ gor = <<>>
    /\ expected = Null /\ actual = Null /\ cfg = Null /\ diffs = <<>>
    /\ hexp = Null /\ hact = Null /\ hcfg = Null /\ hdiffs = <<>>
    /\ keyOrder = <<>>
    /\ ParseIdle /\ CallIdle

\* one call of computeDiff(expected, actual)
ComputeDiff ==
    /\ pc = "start"
    /\ mode = "diff"
    /\ LET os == diffOps(lexp, lact)
           r == Render(os, 1, colorsEnabled, env)
       IN  /\ ops' = os
           /\ result' = r.lines
           /\ colorsEnabled' = r.cache
    /\ pc' = "done"
    /\ UNCHANGED <<mode, lexp, lact, env, gor>>
    /\ UNCHANGED coreVars
    /\ UNCHANGED parseVars
    /\ UNCHANGED callVars

NextDiff == ComputeDiff
SpecDiff == InitDiff /\ [][NextDiff]_vars


(* Parsing of expected documents: template expressions and matchers.       *)

\* trimSpace of matchers.go: blanks and tabs only
RECURSIVE trimSpace(_)
trimSpace(s) ==
    IF Len(s) > 0 /\ SubSeq(s, 1, 1) \in {" ", "\t"} THEN trimSpace(SubSeq(s, 2, Len(s)))
    ELSE IF Len(s) > 0 /\ SubSeq(s, Len(s), Len(s)) \in {" ", "\t"}
         THEN trimSpace(SubSeq(s, 1, Len(s) - 1))
    ELSE s

\* the index (from 0) of the first byte c of s, -1 when there is none
indexOf(s, c) ==
    LET hits == {i \in 1..Len(s) : SubSeq(s, i, i) = c}
    IN  IF hits = {} THEN 0 - 1
        ELSE (CHOOSE i \in hits : \A j \in hits : i <= j) - 1

\* s[from:] with from counted from 0
SliceFrom(s, from) == SubSeq(s, from + 1, Len(s))

\* extractBacktickArg, with BT standing for the backtick
extractBacktickArg(s0) ==
    LET s == trimSpace(s0)
    IN  IF Len(s) >= 2 /\ SubSeq(s, 1, 1) = BT
        THEN LET end == indexOf(SliceFrom(s, 1), BT)
             IN  IF end >= 0 THEN SubSeq(s, 2, end + 1) ELSE ""
        ELSE ""

\* extractQuotedArg for contents without escapes: strconv.Unquote then
\* returns the content, as the fallback does
extractQuotedArg(s0) ==
    LET s == trimSpace(s0)
    IN  IF Len(s) >= 2 /\ SubSeq(s, 1, 1) = "\""
        THEN LET end == indexOf(SliceFrom(s, 1), "\"")
             IN  IF end >= 0 THEN SubSeq(s, 2, end + 1) ELSE ""
        ELSE ""

\* the loop of extractQuotedArgs on the trimmed rest s (no escaped quotes)
RECURSIVE QuotedArgsLoop(_)
QuotedArgsLoop(s) ==
    IF Len(s) > 0 /\ SubSeq(s, 1, 1) = "\""
    THEN LET end == indexOf(SliceFrom(s, 1), "\"")
         IN  IF end >= 0
             THEN <<SubSeq(s, 2, end + 1)>>
                  \o QuotedArgsLoop(trimSpace(SliceFrom(s, end + 2)))
             ELSE <<>>
    ELSE <<>>

extractQuotedArgs(s) == QuotedArgsLoop(trimSpace(s))

\* whether regexp.Compile accepts the pattern, for the patterns used here:
\* literals with optional anchors compile, a bracket or parenthesis that is
\* never closed does not
RegexCompiles(pattern) ==
    /\ ~(Contains(pattern, "[") /\ ~Contains(pattern, "]"))
    /\ ~(Contains(pattern, "(") /\ ~Contains(pattern, ")"))

\* a (Matcher, error) pair: err is "" for a nil error
Parsed(m) == [err |-> "", m |-> m]
ParseError(msg) == [err |-> msg, m |-> Null]

\* Regex(pattern) of matchers.go
RegexOf(pattern) ==
    IF RegexCompiles(pattern) THEN Parsed(Regex(pattern))
    ELSE ParseError("invalid regex pattern " \o Quote(pattern))

parseMatcher_Lenient(expr) ==
    IF expr \in {"anyString", "anyInt", "anyFloat", "anyBool", "anyValue", "ignore"}
    THEN Parsed(MatcherVal(expr, <<>>))
    ELSE Parsed(AnyValue)

\* parseMatcher: the Matcher of a template expression (the text between the
\* braces, trimmed), or an error
parseMatcher(expr) ==
    IF expr \in {"anyString", "anyInt", "anyFloat", "anyBool", "anyValue", "ignore"}
    THEN Parsed(MatcherVal(expr, <<>>))
    ELSE IF Len(expr) > 6 /\ SubSeq(expr, 1, 6) = "regex "
    THEN LET rest == SliceFrom(expr, 6)
         IN  IF extractBacktickArg(rest) # "" THEN RegexOf(extractBacktickArg(rest))
             ELSE IF extractQuotedArg(rest) # "" THEN RegexOf(extractQuotedArg(rest))
             ELSE ParseError("invalid regex syntax: " \o expr)
    ELSE IF Len(expr) > 6 /\ SubSeq(expr, 1, 6) = "oneOf "
    THEN LET values == extractQuotedArgs(SliceFrom(expr, 6))
         IN  IF Len(values) > 0 THEN Parsed(OneOf(values))
             ELSE ParseError("invalid oneOf syntax: " \o expr)
    ELSE ParseError("unknown matcher: " \o expr)

\* the exported name the parsers call
ParseMatcher(expr) == parseMatcher(expr)


matcherPlaceholderPrefix == "__TESTASTIC_MATCHER_"
htmlMatcherPlaceholderPrefix == "__TESTASTIC_HTML_MATCHER_"

\* fmt.Sprintf("%s%d__", prefix, matcherIndex)
Placeholder(prefix, index) == prefix \o ToString(index) \o "__"

\* Content of an expected file before parsing.  A template expression is
\* kept with the raw text between its braces; a JSON object is the sequence
\* of its members in the order of the text.
Tmpl(raw) == [t |-> "tmpl", v |-> raw]
Member(k, v) == [k |-> k, v |-> v]
CObj(members) == [t |-> "cobj", v |-> members]

NoMatchers == [k \in {} |-> ""]

\* ParseExpectedString up to json.Unmarshal: every template expression, in
\* the order of the text, becomes the next placeholder string, and Matchers
\* maps the placeholder to the trimmed expression
RECURSIVE Substitute(_, _), SubstituteAll(_, _)
Substitute(c, index) ==
    CASE c.t = "tmpl" ->
            [data |-> Str(Placeholder(matcherPlaceholderPrefix, index)),
             matchers |-> (Placeholder(matcherPlaceholderPrefix, index) :> trimSpace(c.v)),
             next |-> index + 1]
      [] c.t = "arr" ->
            LET r == SubstituteAll(c.v, index)
            IN  [data |-> Arr(r.items), matchers |-> r.matchers, next |-> r.next]
      [] c.t = "cobj" ->
            LET r == SubstituteAll([k \in 1..Len(c.v) |-> c.v[k].v], index)
            IN  [data |-> Obj([key \in {c.v[k].k : k \in 1..Len(c.v)} |->
                                 r.items[CHOOSE k \in 1..Len(c.v) : c.v[k].k = key]]),
                 matchers |-> r.matchers, next |-> r.next]
      [] OTHER -> [data |-> c, matchers |-> NoMatchers, next |-> index]

SubstituteAll(cs, index) ==
    IF cs = <<>> THEN [items |-> <<>>, matchers |-> NoMatchers, next |-> index]
    ELSE LET h == Substitute(Head(cs), index)
             r == SubstituteAll(Tail(cs), h.next)
         IN  [items |-> <<h.data>> \o r.items,
              matchers |-> h.matchers @@ r.matchers,
              next |-> r.next]

\* the first error of a sequence of (value, error) results, "" when none
FirstError(rs) ==
    LET bad == SelectSeq(rs, LAMBDA r : r.err # "")
    IN  IF bad = <<>> THEN "" ELSE Head(bad).err

\* replacePlaceholders: (value, error); the walk stops at the first error
RECURSIVE replacePlaceholders(_, _)
replacePlaceholders(data, matchers) ==
    CASE data.t = "obj" ->
            LET keys == KeysInOrder(data.v)
                rs == [k \in DOMAIN data.v |-> replacePlaceholders(data.v[k], matchers)]
                err == FirstError([i \in 1..Len(keys) |-> rs[keys[i]]])
            IN  IF err # "" THEN [err |-> err, v |-> Null]
                ELSE [err |-> "", v |-> Obj([k \in DOMAIN data.v |-> rs[k].v])]
      [] data.t = "arr" ->
            LET rs == [i \in 1..Len(data.v) |-> replacePlaceholders(data.v[i], matchers)]
                err == FirstError(rs)
            IN  IF err # "" THEN [err |-> err, v |-> Null]
                ELSE [err |-> "", v |-> Arr([i \in 1..Len(data.v) |-> rs[i].v])]
      [] data.t = "str" ->
            IF HasPrefix(data.v, matcherPlaceholderPrefix)
            THEN IF data.v \notin DOMAIN matchers
                 THEN [err |-> "unknown placeholder: " \o data.v, v |-> Null]
                 ELSE LET r == ParseMatcher(matchers[data.v])
                      IN  IF r.err # ""
                          THEN [err |-> "failed to parse matcher "
                                        \o Quote(matchers[data.v]) \o ": " \o r.err,
                                v |-> Null]
                          ELSE [err |-> "", v |-> r.m]
            ELSE [err |-> "", v |-> data]
      [] OTHER -> [err |-> "", v |-> data]

\* the (document, error) pairs the parsers return
NilDoc == [nil |-> TRUE]
ExpectedJSON(data, matchers) == [nil |-> FALSE, Data |-> data, Matchers |-> matchers]
ExpectedHTML(root, matchers) == [nil |-> FALSE, Root |-> root, Matchers |-> matchers]
Returned(doc, err) == [doc |-> doc, err |-> err]

\* ParseExpectedString on content that is well-formed JSON around its
\* template expressions
ParseExpectedStringOf(c) ==
    LET sub == Substitute(c, 0)
        r == replacePlaceholders(sub.data, sub.matchers)
    IN  IF r.err # "" THEN Returned(NilDoc, r.err)
        ELSE Returned(ExpectedJSON(r.v, sub.matchers), "")


\* Content of an expected HTML file: a text is a sequence of literal pieces
\* and template expressions, an element lists its attributes in the order of
\* the text.
Lit(str) == [t |-> "lit", v |-> str]
CEl(tag, attrs, kids) == [t |-> "cel", tag |-> tag, attrs |-> attrs, kids |-> kids]
CTxt(pieces) == [t |-> "ctxt", v |-> pieces]
CCmt(pieces) == [t |-> "ccmt", v |-> pieces]

\* ReplaceAllStringFunc of ParseExpectedHTMLString on one text
RECURSIVE SubstituteText(_, _)
SubstituteText(pieces, index) ==
    IF pieces = <<>> THEN [text |-> "", matchers |-> NoMatchers, next |-> index]
    ELSE IF Head(pieces).t = "tmpl"
    THEN LET r == SubstituteText(Tail(pieces), index + 1)
             ph == Placeholder(htmlMatcherPlaceholderPrefix, index)
         IN  [text |-> ph \o r.text,
              matchers |-> (ph :> trimSpace(Head(pieces).v)) @@ r.matchers,
              next |-> r.next]
    ELSE LET r == SubstituteText(Tail(pieces), index)
         IN  [text |-> Head(pieces).v \o r.text, matchers |-> r.matchers, next |-> r.next]

\* the same over the attributes of a tag, in the order of the text
RECURSIVE SubstituteAttrs(_, _)
SubstituteAttrs(attrs, index) ==
    IF attrs = <<>> THEN [attr |-> EmptyMap, matchers |-> NoMatchers, next |-> index]
    ELSE LET h == SubstituteText(Head(attrs).v, index)
             r == SubstituteAttrs(Tail(attrs), h.next)
         IN  [attr |-> (Head(attrs).k :> Str(h.text)) @@ r.attr,
              matchers |-> h.matchers @@ r.matchers,
              next |-> r.next]

\* the placeholders substituted and html.Parse applied: the html.Node tree
\* of the content, with the Matchers map
RECURSIVE SubstituteDom(_, _), SubstituteKids(_, _)
SubstituteDom(c, index) ==
    CASE c.t = "cel" ->
            LET a == SubstituteAttrs(c.attrs, index)
                k == SubstituteKids(c.kids, a.next)
            IN  [node |-> DomNode(ElementNode, c.tag, Null, a.attr, k.nodes),
                 matchers |-> a.matchers @@ k.matchers, next |-> k.next]
      [] c.t = "ctxt" ->
            LET r == SubstituteText(c.v, index)
            IN  [node |-> DomNode(TextNode, "", Str(r.text), EmptyMap, <<>>),
                 matchers |-> r.matchers, next |-> r.next]
      [] c.t = "ccmt" ->
            LET r == SubstituteText(c.v, index)
            IN  [node |-> DomNode(CommentNode, "", Str(r.text), EmptyMap, <<>>),
                 matchers |-> r.matchers, next |-> r.next]

SubstituteKids(cs, index) ==
    IF cs = <<>> THEN [nodes |-> <<>>, matchers |-> NoMatchers, next |-> index]
    ELSE LET h == SubstituteDom(Head(cs), index)
             r == SubstituteKids(Tail(cs), h.next)
         IN  [nodes |-> <<h.node>> \o r.nodes,
              matchers |-> h.matchers @@ r.matchers,
              next |-> r.next]

HasSuffix(str, suffix) ==
    Len(str) >= Len(suffix) /\ SubSeq(str, Len(str) - Len(suffix) + 1, Len(str)) = suffix

\* strings.ReplaceAll for a non-empty old
RECURSIVE ReplaceAll(_, _, _)
ReplaceAll(str, old, new) ==
    IF Len(str) < Len(old) THEN str
    ELSE IF HasPrefix(str, old)
         THEN new \o ReplaceAll(SubSeq(str, Len(old) + 1, Len(str)), old, new)
    ELSE SubSeq(str, 1, 1) \o ReplaceAll(SubSeq(str, 2, Len(str)), old, new)

\* the range loop of resolveHTMLMatcherInValue over the placeholders phs.
\* Its result does not depend on the order of the range: a value whose
\* trimmed text is one placeholder holds no other.
RECURSIVE ResolveLoop(_, _, _)
ResolveLoop(value, phs, matchers) ==
    IF phs = <<>> THEN Str(value)
    ELSE IF Contains(value, Head(phs))
    THEN IF TrimSpace(value) = Head(phs) /\ ParseMatcher(matchers[Head(phs)]).err = ""
         THEN ParseMatcher(matchers[Head(phs)]).m
         ELSE ResolveLoop(ReplaceAll(value, Head(phs), "{{" \o matchers[Head(phs)] \o "}}"),
                          Tail(phs), matchers)
    ELSE ResolveLoop(value, Tail(phs), matchers)

\* resolveHTMLMatcherInValue for a non-nil matchers map of n placeholders
resolveHTMLMatcherInValue(value, matchers, n) ==
    IF /\ HasPrefix(value, htmlMatcherPlaceholderPrefix) /\ HasSuffix(value, "__")
       /\ value \in DOMAIN matchers
       /\ ParseMatcher(matchers[value]).err = ""
    THEN ParseMatcher(matchers[value]).m
    ELSE ResolveLoop(value,
                     [i \in 1..n |-> Placeholder(htmlMatcherPlaceholderPrefix, i - 1)],
                     matchers)

\* the attribute values and texts of the tree resolved, as convertToHTMLNode
\* and convertChildToHTMLNode do on their way down; comments are taken as
\* they are
RECURSIVE ResolveDom(_, _, _)
ResolveDom(n, matchers, cnt) ==
    CASE n.Type = ElementNode ->
            [n EXCEPT !.Attr = [k \in DOMAIN n.Attr |->
                                   resolveHTMLMatcherInValue(n.Attr[k].v, matchers, cnt)],
                      !.Children = [i \in 1..Len(n.Children) |->
                                       ResolveDom(n.Children[i], matchers, cnt)]]
      [] n.Type = TextNode ->
            [n EXCEPT !.Val = resolveHTMLMatcherInValue(n.Val.v, matchers, cnt)]
      [] n.Type = DocumentNode ->
            [n EXCEPT !.Children = [i \in 1..Len(n.Children) |->
                                       ResolveDom(n.Children[i], matchers, cnt)]]
      [] OTHER -> n

\* ParseExpectedHTMLString on the content of a body: html.Parse reports no
\* error for it
ParseExpectedHTMLStringOf(kids) ==
    LET sub == SubstituteKids(kids, 0)
        doc == Document(FALSE, sub.nodes)
    IN  Returned(ExpectedHTML(convertToHTMLNode(ResolveDom(doc, sub.matchers, sub.next), ""),
                              sub.matchers), "")


(* Inputs of the parsers.                                                  *)

\* template expressions as written between the braces
GoodExprs ==
    {"anyString", " anyInt ", "ignore",
     "regex " \o BT \o "^x$" \o BT,
     "oneOf \"x\" \"y\""}
UnknownExprs == {"unknown", "AnyString", "oneOf x", "regex x"}
BadRegexExprs == {"regex " \o BT \o "[" \o BT, "regex \"(x\""}
Exprs == GoodExprs \cup UnknownExprs \cup BadRegexExprs

ContentLeaves == {Tmpl(e) : e \in Exprs} \cup {Str("x"), Num(2)}
JSONContents ==
    ContentLeaves
    \cup {CObj(<<Member("a", l)>>) : l \in ContentLeaves}
    \cup {CObj(<<Member("a", l), Member("b", r)>>) : l, r \in ContentLeaves}
    \cup {Arr(<<l, Str("x")>>) : l \in ContentLeaves}
JSONActuals == {Str("x"), Obj("a" :> Str("x")), Arr(<<Str("y"), Str("x")>>)}

PieceSeqs ==
    {<<Lit("x")>>, <<Lit("btn btn-x")>>}
    \cup {<<Tmpl(e)>> : e \in Exprs}
    \cup {<<Lit("btn btn-"), Tmpl(e)>> : e \in Exprs}
HTMLContents ==
    {<<CEl("p", <<Member("class", a)>>, <<CTxt(<<Lit("x")>>)>>)>> : a \in PieceSeqs}
    \cup {<<CEl("p", <<>>, <<CTxt(t)>>)>> : t \in PieceSeqs}
    \cup {<<CEl("p", <<>>, <<CCmt(<<Tmpl(e)>>)>>)>> : e \in {"anyString", "unknown"}}
HTMLActuals ==
    {Document(FALSE, <<El("p", "class" :> Str(c), <<Txt(Str("x"))>>)>>) :
        c \in {"x", "btn btn-x", "btn btn-z"}}
    \cup {Document(FALSE, <<El("p", EmptyMap, <<Txt(Str(t))>>)>>) :
             t \in {"x", "btn btn-x", "btn btn-z"}}

\* AssertJSON with an existing expected file, before ParseExpectedFile
InitParseJSON ==
    /\ pc = "parse"
    /\ mode = "json"
    /\ content \in JSONContents
    /\ actual \in JSONActuals
    /\ cfg = Config(FALSE, <<>>, <<>>)
    /\ keyOrder \in {KeyOrders[i] : i \in 1..Len(KeyOrders)}
    /\ parsed = <<>> /\ matched = FALSE
    /\ expected = Null /\ diffs = <<>>
    /\ hexp = Null /\ hact = Null /\ hcfg = Null /\ hdiffs = <<>>
    /\ DiffIdle /\ CallIdle

\* AssertHTML with an existing expected file, before ParseExpectedHTMLFile
InitParseHTML ==
    /\ pc = "parse"
    /\ mode = "html"
    /\ content \in HTMLContents
    /\ hact \in {convertToHTMLNode(a, "") : a \in HTMLActuals}
    /\ hcfg = HDefault
    /\ keyOrder = <<"class", "id">>
    /\ parsed = <<>> /\ matched = FALSE
    /\ hexp = Null /\ hdiffs = <<>>
    /\ expected = Null /\ actual = Null /\ cfg = Null /\ diffs = <<>>
    /\ DiffIdle /\ CallIdle

\* expected, err := ParseExpectedFile(expectedFile); on an error the
\* assertion ends with Fatalf, otherwise expected.Data goes to compare
ParseExpectedString ==
    /\ pc = "parse"
    /\ mode = "json"
    /\ parsed' = ParseExpectedStringOf(content)
    /\ IF parsed'.err # ""
       THEN pc' = "fatal" /\ UNCHANGED expected
       ELSE pc' = "start" /\ expected' = parsed'.doc.Data
    /\ UNCHANGED <<mode, actual, cfg, keyOrder, diffs, hexp, hact, hcfg, hdiffs, content, matched>>
    /\ UNCHANGED diffVars
    /\ UNCHANGED callVars

\* expected, err := ParseExpectedHTMLFile(expectedFile), likewise
ParseExpectedHTMLString ==
    /\ pc = "parse"
    /\ mode = "html"
    /\ parsed' = ParseExpectedHTMLStringOf(content)
    /\ IF parsed'.err # ""
       THEN pc' = "fatal" /\ UNCHANGED hexp
       ELSE pc' = "start" /\ hexp' = parsed'.doc.Root
    /\ UNCHANGED <<mode, expected, actual, cfg, keyOrder, diffs, hact, hcfg, hdiffs,
                   content, matched>>
    /\ UNCHANGED diffVars
    /\ UNCHANGED callVars

InitParse == InitParseJSON \/ InitParseHTML
NextParse == ParseExpectedString \/ ParseExpectedHTMLString \/ Compare \/ CompareHTML
SpecParse == InitParse /\ [][NextParse]_vars


(* Two callers running computeDiff concurrently.                           *)

Goroutines == {1, 2}

\* the (expected, actual) line pairs a concurrent caller may hold
ConcInputs ==
    {<<(<<>>), (<<>>)>>, <<(<<"a">>), (<<"a">>)>>,
     <<(<<"a">>), (<<"b">>)>>, <<(<<"a", "b">>), (<<"a">>)>>}

\* a goroutine in computeDiff: its position, its arguments and locals, and
\* the package variables it has read and written so far
Goroutine(in) ==
    [pc |-> "start", expected |-> in[1], actual |-> in[2], ops |-> <<>>, k |-> 1,
     result |-> <<>>, detected |-> FALSE, use |-> FALSE, reads |-> {}, writes |-> {}]

InitConc ==
    /\ pc = "start"
    /\ mode = "conc"
    /\ gor \in [Goroutines -> {Goroutine(in) : in \in ConcInputs}]
    /\ env \in BOOLEAN
    /\ colorsEnabled = "nil"
    /\ lexp = <<>> /\ lact = <<>> /\ ops = <<>> /\ result = <<>>
    /\ expected = Null /\ actual = Null /\ cfg = Null /\ diffs = <<>>
    /\ hexp = Null /\ hact = Null /\ hcfg = Null /\ hdiffs = <<>>
    /\ keyOrder = <<>>
    /\ ParseIdle /\ CallIdle

ConcUnchanged ==
    /\ UNCHANGED <<pc, mode, env, lexp, lact, ops, result>>
    /\ UNCHANGED coreVars
    /\ UNCHANGED parseVars
    /\ UNCHANGED callVars

\* the table, the backtracking and the reversal: locals only
BuildOps(g) ==
    /\ gor[g].pc = "start"
    /\ gor' = [gor EXCEPT ![g].ops = diffOps(gor[g].expected, gor[g].actual),
                          ![g].pc = "loop"]
    /\ UNCHANGED colorsEnabled
    /\ ConcUnchanged

\* one round of the output loop: an Equal line is appended as it is, a
\* Delete or Insert line goes through red or green into useColors; after
\* the last operation computeDiff returns
OutputLoop(g) ==
    /\ gor[g].pc = "loop"
    /\ IF gor[g].k > Len(gor[g].ops)
       THEN gor' = [gor EXCEPT ![g].pc = "done"]
       ELSE IF gor[g].ops[gor[g].k].op = diffEqual
       THEN gor' = [gor EXCEPT ![g].result = @ \o <<"  " \o gor[g].ops[gor[g].k].line>>,
                               ![g].k = @ + 1]
       ELSE gor' = [gor EXCEPT ![g].pc = "useColors"]
    /\ UNCHANGED colorsEnabled
    /\ ConcUnchanged

\* useColors: if colorsEnabled != nil { return *colorsEnabled }
ReadCache(g) ==
    /\ gor[g].pc = "useColors"
    /\ IF colorsEnabled # "nil"
       THEN gor' = [gor EXCEPT ![g].use = (colorsEnabled = "true"),
                               ![g].reads = @ \cup {"colorsEnabled"},
                               ![g].pc = "colorize"]
       ELSE gor' = [gor EXCEPT ![g].reads = @ \cup {"colorsEnabled"},
                               ![g].pc = "detect"]
    /\ UNCHANGED colorsEnabled
    /\ ConcUnchanged

\* useColors: result := detectColors()
DetectColors(g) ==
    /\ gor[g].pc = "detect"
    /\ gor' = [gor EXCEPT ![g].detected = env, ![g].pc = "store"]
    /\ UNCHANGED colorsEnabled
    /\ ConcUnchanged

\* useColors: colorsEnabled = &result; return result
StoreCache(g) ==
    /\ gor[g].pc = "store"
    /\ colorsEnabled' = IF gor[g].detected THEN "true" ELSE "false"
    /\ gor' = [gor EXCEPT ![g].use = gor[g].detected,
                          ![g].writes = @ \cup {"colorsEnabled"},
                          ![g].pc = "colorize"]
    /\ ConcUnchanged

\* colorize with the answer of useColors, and the append of the line
Colorize(g) ==
    /\ gor[g].pc = "colorize"
    /\ LET o == gor[g].ops[gor[g].k]
           text == IF o.op = diffDelete
                   THEN colorize("- " \o o.line, colorRed, gor[g].use)
                   ELSE colorize("+ " \o o.line, colorGreen, gor[g].use)
       IN  gor' = [gor EXCEPT ![g].result = @ \o <<text>>,
                              ![g].k = @ + 1,
                              ![g].pc = "loop"]
    /\ UNCHANGED colorsEnabled
    /\ ConcUnchanged

NextConc ==
    \E g \in Goroutines :
        \/ BuildOps(g)
        \/ OutputLoop(g)
        \/ ReadCache(g)
        \/ DetectColors(g)
        \/ StoreCache(g)
        \/ Colorize(g)
SpecConc == InitConc /\ [][NextConc]_vars


(* A Matcher called on its own, as the tests of the matchers do.           *)

MatchValues ==
    {IntVal(0), IntVal(4), IntVal(0 - 3),
     Num(0), Num(1), Num(8), Num(9), Num(0 - 8), Num(0 - 9), HugeNum,
     Str("4"), Str("x"), Str(""), Bool(TRUE), Null, Obj(EmptyMap), Arr(<<>>)}

InitMatch ==
    /\ pc = "start"
    /\ mode = "match"
    /\ expected \in Matchers
    /\ actual \in MatchValues
    /\ matched = FALSE
    /\ cfg = Null /\ diffs = <<>> /\ keyOrder = <<>>
    /\ hexp = Null /\ hact = Null /\ hcfg = Null /\ hdiffs = <<>>
    /\ content = <<>> /\ parsed = <<>>
    /\ DiffIdle /\ CallIdle

\* m.Match(actual)
ApplyMatch ==
    /\ pc = "start"
    /\ mode = "match"
    /\ matched' = Match(expected, actual)
    /\ pc' = "done"
    /\ UNCHANGED <<mode, content, parsed>>
    /\ UNCHANGED coreVars
    /\ UNCHANGED diffVars
    /\ UNCHANGED callVars

NextMatch == ApplyMatch
SpecMatch == InitMatch /\ [][NextMatch]_vars


(* A Matcher described and parsed again.                                   *)

\* template expressions parseMatcher accepts: the six keywords, regex with a
\* pattern between backticks or quotes, oneOf with one or two values
Keywords == {"anyString", "anyInt", "anyFloat", "anyBool", "anyValue", "ignore"}
Patterns == {"^x$", "^x", "x$", "x", "x y", "4"}
QuotedOnlyPatterns == {"x" \o BT \o "y"}
OneOfValues == {"x", "y", "x y", "4"}
DescribeExprs ==
    Keywords
    \cup {"regex " \o BT \o q \o BT : q \in Patterns}
    \cup {"regex " \o Quote(q) : q \in Patterns \cup QuotedOnlyPatterns}
    \cup {"oneOf " \o Quote(v) : v \in OneOfValues}
    \cup {"oneOf " \o Quote(v) \o " " \o Quote(w) : v, w \in OneOfValues}

\* values a described matcher is tried on
DescribeProbes ==
    {Str("x"), Str("y"), Str("x y"), Str("4"), Str("xx"), Str("ax"), Str("x" \o BT \o "y"),
     Str(""), IntVal(4), Num(8), Num(9), Bool(TRUE), Null}

\* the text of m.String() between its {{ and }}
StripBraces(str) == SubSeq(str, 3, Len(str) - 2)

InitDescribe ==
    /\ pc = "parse"
    /\ mode = "describe"
    /\ content \in {<<e>> : e \in DescribeExprs}
    /\ parsed = <<>>
    /\ matched = FALSE
    /\ expected = Null /\ actual = Null
    /\ cfg = Null /\ diffs = <<>> /\ keyOrder = <<>>
    /\ hexp = Null /\ hact = Null /\ hcfg = Null /\ hdiffs = <<>>
    /\ DiffIdle /\ CallIdle

\* m, err := parseMatcher(expr)
ParseExpr ==
    /\ pc = "parse"
    /\ mode = "describe"
    /\ parsed' = parseMatcher(content[1])
    /\ expected' = parsed'.m
    /\ pc' = IF parsed'.err = "" THEN "parsed" ELSE "fatal"
    /\ UNCHANGED <<mode, content, matched, actual, cfg, keyOrder, diffs,
                   hexp, hact, hcfg, hdiffs>>
    /\ UNCHANGED diffVars
    /\ UNCHANGED callVars

\* parseMatcher of m.String() without its braces
Reparse ==
    /\ pc = "parsed"
    /\ mode = "describe"
    /\ content' = <<StripBraces(MatcherString(expected))>>
    /\ parsed' = parseMatcher(content'[1])
    /\ pc' = "described"
    /\ UNCHANGED <<mode, matched>>
    /\ UNCHANGED coreVars
    /\ UNCHANGED diffVars
    /\ UNCHANGED callVars

NextDescribe == ParseExpr \/ Reparse
SpecDescribe == InitDescribe /\ [][NextDescribe]_vars


(* Creating and updating the expected file (update.go).                    *)

\* the keys of the generated documents in the order of sort.Strings, which
\* json.MarshalIndent writes the members of a map in
SortedKeys == <<"a", "b", "id">>

\* the text json.MarshalIndent gives for a value, as file content: an
\* object lists its members by sorted key
RECURSIVE MarshalIndent(_)
MarshalIndent(x) ==
    CASE x.t = "obj" ->
            LET ks == SelectSeq(SortedKeys, LAMBDA k : k \in DOMAIN x.v)
            IN  CObj([i \in 1..Len(ks) |-> Member(ks[i], MarshalIndent(x.v[ks[i]]))])
      [] x.t = "arr" -> Arr([i \in 1..Len(x.v) |-> MarshalIndent(x.v[i])])
      [] OTHER -> x

\* extractMatcherPaths: the (path, m.String()) pairs of the matchers of the
\* expected data
RECURSIVE extractMatcherPaths(_, _)
extractMatcherPaths(data, path) ==
    CASE data.t = "obj" ->
            UNION {IF IsMatcher(data.v[key])
                   THEN {<<path \o "." \o key, MatcherString(data.v[key])>>}
                   ELSE extractMatcherPaths(data.v[key], path \o "." \o key) :
                   key \in DOMAIN data.v}
      [] data.t = "arr" ->
            UNION {IF IsMatcher(data.v[i])
                   THEN {<<IndexPath(path, i - 1), MatcherString(data.v[i])>>}
                   ELSE extractMatcherPaths(data.v[i], IndexPath(path, i - 1)) :
                   i \in 1..Len(data.v)}
      [] OTHER -> {}

\* ExtractMatcherPositions: the map from path to template expression
ExtractMatcherPositions(data) ==
    LET pairs == extractMatcherPaths(data, "$")
    IN  [q \in {pr[1] : pr \in pairs} |-> (CHOOSE pr \in pairs : pr[1] = q)[2]]

\* the key replaceValueAtPath looks for: the last part of the path, cut
\* before a "[" that is not its first character
pathKey(path) ==
    LET key == LastSegment(path)
        idx == indexOf(key, "[")
    IN  IF idx > 0 THEN SubSeq(key, 1, idx) ELSE key

\* whether the value alternatives of the pattern of replaceValueAtPath match
\* the text of a member's value from its first character: a string without
\* an inner quote (a template expression written before is one), an
\* unsigned decimal number, true, false or null
MatchesValuePattern(v) ==
    CASE v.t \in {"str", "tmpl"} -> ~Contains(v.v, "\"")
      [] v.t = "num" -> v.v >= 0
      [] v.t \in {"bool", "null"} -> TRUE
      [] OTHER -> FALSE

\* ReplaceAllStringFunc of replaceValueAtPath: every member with the key and
\* a matching value, wherever it stands, gets the quoted matcher expression
RECURSIVE ReplaceKey(_, _, _)
ReplaceKey(c, key, matcherExpr) ==
    CASE c.t = "cobj" ->
            CObj([i \in 1..Len(c.v) |->
                     IF c.v[i].k = key /\ MatchesValuePattern(c.v[i].v)
                     THEN Member(key, Tmpl(StripBraces(matcherExpr)))
                     ELSE Member(c.v[i].k, ReplaceKey(c.v[i].v, key, matcherExpr))])
      [] c.t = "arr" -> Arr([i \in 1..Len(c.v) |-> ReplaceKey(c.v[i], key, matcherExpr)])
      [] OTHER -> c

\* ReplaceKey looking at the members of the outermost object only
replaceValueAtPath_TopOnly(jsonStr, path, matcherExpr) ==
    IF jsonStr.t = "cobj"
    THEN CObj([i \in 1..Len(jsonStr.v) |->
                  IF jsonStr.v[i].k = pathKey(path) /\ MatchesValuePattern(jsonStr.v[i].v)
                  THEN Member(jsonStr.v[i].k, Tmpl(StripBraces(matcherExpr)))
                  ELSE jsonStr.v[i]])
    ELSE jsonStr

replaceValueAtPath(jsonStr, path, matcherExpr) ==
    ReplaceKey(jsonStr, pathKey(path), matcherExpr)

\* the orders in which a range over the map may visit its paths
PathOrders(positions) ==
    {o \in [1..Cardinality(DOMAIN positions) -> DOMAIN positions] :
        \A i, j \in DOMAIN o : i # j => o[i] # o[j]}

\* the loop of generateUpdatedJSON over the positions in the given order
RECURSIVE ReplaceLoop(_, _, _)
ReplaceLoop(jsonStr, positions, order) ==
    IF order = <<>> THEN jsonStr
    ELSE ReplaceLoop(replaceValueAtPath(jsonStr, Head(order), positions[Head(order)]),
                     positions, Tail(order))

generateUpdatedJSON(data, matcherPositions, order) ==
    ReplaceLoop(MarshalIndent(data), matcherPositions, order)


\* strings.Repeat("  ", indent)
RECURSIVE indentStr(_)
indentStr(indent) == IF indent = 0 THEN "" ELSE "  " \o indentStr(indent - 1)

\* the content html.Parse reads back from renderPrettyHTML of the children
\* of an element rendered at the given indent: the only text of an element
\* is written in line, every other child on a line of its own, a comment
\* between "<!-- " and " -->", the attributes by sorted name
RECURSIVE RenderKids(_, _)
RenderKids(children, indent) ==
    [i \in 1..Len(children) |->
        LET node == children[i]
        IN  CASE node.Type = HTMLElement ->
                    LET names == SelectSeq(<<"class", "id">>,
                                           LAMBDA a : a \in DOMAIN node.Attributes)
                    IN  CEl(node.Tag,
                            [j \in 1..Len(names) |->
                                Member(names[j], <<Lit(getString(node.Attributes[names[j]]))>>)],
                            IF Len(node.Children) = 1 /\ node.Children[1].Type = HTMLText
                            THEN <<CTxt(<<Lit(getTextContent(node.Children[1]))>>)>>
                            ELSE RenderKids(node.Children, indent + 1))
              [] node.Type = HTMLComment -> CCmt(<<Lit(" " \o getString(node.Text) \o " ")>>)
              [] OTHER ->
                    CTxt(<<Lit("\n" \o indentStr(indent + 1) \o TrimSpace(getTextContent(node))
                               \o "\n"
                               \o indentStr(IF i < Len(children) THEN indent + 1 ELSE indent))>>)]

\* the file createExpectedHTMLFile and updateExpectedHTMLFile write for the
\* tree of the actual document: the content of its body, which stands at
\* indent 1
renderPrettyHTML(node) == RenderKids(node.Children[2].Children, 1)


(* Assertion calls on an expected file that may be missing (AssertJSON,    *)
(* AssertHTML), one after the other.                                        *)

MaxCalls == 2

\* actual bytes that are not JSON
Invalid == [t |-> "invalid"]

\* the file is read as it is on disk; no file has no content
NoContent == <<>>

AssertLeaves ==
    {Tmpl("anyInt"), Tmpl("anyString"), Tmpl("oneOf \"x\" \"y\""), Tmpl("unknown"),
     Num(2), Str("x")}
AssertJSONContents ==
    {CObj(<<Member("id", l)>>) : l \in AssertLeaves}
    \cup {CObj(<<Member("a", CObj(<<Member("id", l)>>)), Member("id", r)>>) :
             l \in {Tmpl("anyInt"), Tmpl("anyString")}, r \in {Num(2), Str("x")}}
    \cup {Arr(<<l, Str("x")>>) : l \in {Tmpl("anyString"), Str("y")}}
AssertJSONActuals ==
    {Invalid}
    \cup {Obj("id" :> v) : v \in {Num(2), Num(4), Num(0 - 8), Str("x"), Str("z")}}
    \cup {Obj(("a" :> Obj("id" :> v)) @@ ("id" :> w)) :
             v \in {Num(4), Str("x")}, w \in {Num(2), Num(4)}}
    \cup {Arr(<<Str(v), Str("x")>>) : v \in {"y", "z"}}

AssertHTMLContents ==
    {<<CEl("p", <<>>, <<CTxt(<<l>>)>>)>> : l \in {Lit("x"), Tmpl("anyString"), Tmpl("anyInt")}}
    \cup {<<CEl("p", <<>>, <<>>), CCmt(<<Lit("c")>>)>>}
AssertHTMLActuals ==
    {Document(FALSE, <<El("p", EmptyMap, <<Txt(Str(v))>>)>>) : v \in {"x", "y"}}
    \cup {Document(FALSE, <<El("p", EmptyMap, <<>>), Cmt("c")>>),
          Document(FALSE, <<El("div", "id" :> Str("x"),
                               <<Txt(Str("x")), El("p", EmptyMap, <<>>)>>)>>)}

\* what a finished call leaves for the next one to look back on
CallRecord == [actual |-> actual, update |-> update, tb |-> tb, steps |-> steps,
               diffs |-> IF mode = "json" THEN diffs ELSE hdiffs]

\* before the first call: the file is missing or holds some content
InitAssert ==
    /\ pc = "stat"
    /\ \/ /\ mode = "json"
          /\ \/ exists = FALSE /\ content = NoContent
             \/ exists = TRUE /\ content \in AssertJSONContents
          /\ actual \in AssertJSONActuals
          /\ cfg = Config(FALSE, <<>>, <<>>) /\ hcfg = Null
          /\ keyOrder = <<"a", "id">>
       \/ /\ mode = "html"
          /\ \/ exists = FALSE /\ content = NoContent
             \/ exists = TRUE /\ content \in AssertHTMLContents
          /\ actual \in AssertHTMLActuals
          /\ cfg = Null /\ hcfg = HDefault
          /\ keyOrder = <<"class", "id">>
    /\ update \in BOOLEAN
    /\ tb = "ok" /\ steps = <<>> /\ prev = <<>> /\ calls = 1 /\ writes = 0
    /\ parsed = <<>> /\ matched = FALSE
    /\ expected = Null /\ diffs = <<>>
    /\ hexp = Null /\ hact = Null /\ hdiffs = <<>>
    /\ DiffIdle

\* StatMissing that never creates the file
StatMissing_NoCreate ==
    /\ pc = "stat"
    /\ ~exists
    /\ tb' = "fatal"
    /\ steps' = steps \o <<"stat">>
    /\ pc' = "end"
    /\ UNCHANGED <<mode, update, prev, calls, parsed, matched, content, exists, writes>>
    /\ UNCHANGED coreVars
    /\ UNCHANGED diffVars

\* os.Stat finds no file: in update mode the file is created from the
\* actual bytes, otherwise the call ends with Fatalf; the call returns
StatMissing ==
    /\ pc = "stat"
    /\ ~exists
    /\ IF update
       THEN IF mode = "json"
            THEN IF actual = Invalid
                 THEN /\ tb' = "fatal"
                      /\ steps' = steps \o <<"stat", "unmarshal">>
                      /\ UNCHANGED <<content, exists, writes>>
                 ELSE /\ content' = MarshalIndent(actual)
                      /\ exists' = TRUE
                      /\ writes' = writes + 1
                      /\ steps' = steps \o <<"stat", "unmarshal", "write">>
                      /\ UNCHANGED tb
            ELSE /\ content' = renderPrettyHTML(convertToHTMLNode(actual, ""))
                 /\ exists' = TRUE
                 /\ writes' = writes + 1
                 /\ steps' = steps \o <<"stat", "write">>
                 /\ UNCHANGED tb
       ELSE /\ tb' = "fatal"
            /\ steps' = steps \o <<"stat">>
            /\ UNCHANGED <<content, exists, writes>>
    /\ pc' = "end"
    /\ UNCHANGED <<mode, update, prev, calls, parsed, matched>>
    /\ UNCHANGED coreVars
    /\ UNCHANGED diffVars

\* os.Stat finds the file and ParseExpectedFile / ParseExpectedHTMLFile
\* reads it; an error ends the call with Fatalf
ParseExpectedFile ==
    /\ pc = "stat"
    /\ exists
    /\ parsed' = IF mode = "json" THEN ParseExpectedStringOf(content)
                 ELSE ParseExpectedHTMLStringOf(content)
    /\ IF parsed'.err # ""
       THEN /\ pc' = "end" /\ tb' = "fatal"
            /\ UNCHANGED <<expected, hexp>>
       ELSE /\ pc' = "actual" /\ UNCHANGED tb
            /\ IF mode = "json"
               THEN expected' = parsed'.doc.Data /\ UNCHANGED hexp
               ELSE hexp' = parsed'.doc.Root /\ UNCHANGED expected
    /\ steps' = steps \o <<"stat", "parseExpected">>
    /\ UNCHANGED <<mode, actual, cfg, keyOrder, diffs, hact, hcfg, hdiffs, content, matched,
                   update, exists, prev, calls, writes>>
    /\ UNCHANGED diffVars

\* parseActualJSON / parseActualHTMLBytes; an error ends the call with Fatalf
ParseActual ==
    /\ pc = "actual"
    /\ IF mode = "json"
       THEN /\ IF actual = Invalid THEN pc' = "end" /\ tb' = "fatal"
               ELSE pc' = "compare" /\ UNCHANGED tb
            /\ UNCHANGED hact
       ELSE /\ hact' = convertToHTMLNode(actual, "")
            /\ pc' = "compare" /\ UNCHANGED tb
    /\ steps' = steps \o <<"parseActual">>
    /\ UNCHANGED <<mode, expected, actual, cfg, keyOrder, diffs, hexp, hcfg, hdiffs,
                   update, exists, prev, calls, writes>>
    /\ UNCHANGED parseVars
    /\ UNCHANGED diffVars

\* diffs := compare(...) / compareHTML(...)
CompareDocuments ==
    /\ pc = "compare"
    /\ IF mode = "json"
       THEN diffs' = compare(expected, actual, "$", cfg) /\ UNCHANGED hdiffs
       ELSE hdiffs' = compareHTML(hexp, hact, hcfg) /\ UNCHANGED diffs
    /\ pc' = "finish"
    /\ steps' = steps \o <<"compare">>
    /\ UNCHANGED <<mode, expected, actual, cfg, keyOrder, hexp, hact, hcfg,
                   update, exists, tb, prev, calls, writes>>
    /\ UNCHANGED parseVars
    /\ UNCHANGED diffVars

\* the end of the call that rewrites the file in update mode whatever the
\* comparison found
UpdateOrReport_AlwaysWrite ==
    /\ pc = "finish"
    /\ LET found == IF mode = "json" THEN diffs # <<>> ELSE hdiffs # <<>>
       IN  IF update
           THEN /\ IF mode = "json"
                   THEN \E order \in PathOrders(ExtractMatcherPositions(expected)) :
                            content' = generateUpdatedJSON(
                                           actual, ExtractMatcherPositions(expected), order)
                   ELSE content' = renderPrettyHTML(hact)
                /\ writes' = writes + 1
                /\ steps' = steps \o <<"write">>
                /\ UNCHANGED tb
           ELSE /\ tb' = IF found THEN "error" ELSE "ok"
                /\ steps' = steps
                /\ UNCHANGED <<content, writes>>
    /\ pc' = "end"
    /\ UNCHANGED <<mode, update, exists, prev, calls, parsed, matched>>
    /\ UNCHANGED coreVars
    /\ UNCHANGED diffVars

\* the end of the call: with differences the file is rewritten in update
\* mode (updateExpectedFile, updateExpectedHTMLFile) and the differences are
\* reported with Errorf otherwise
UpdateOrReport ==
    /\ pc = "finish"
    /\ LET found == IF mode = "json" THEN diffs # <<>> ELSE hdiffs # <<>>
       IN  IF update /\ found
           THEN /\ IF mode = "json"
                   THEN \E order \in PathOrders(ExtractMatcherPositions(expected)) :
                            content' = generateUpdatedJSON(
                                           actual, ExtractMatcherPositions(expected), order)
                   ELSE content' = renderPrettyHTML(hact)
                /\ writes' = writes + 1
                /\ steps' = steps \o <<"write">>
                /\ UNCHANGED tb
           ELSE /\ tb' = IF found THEN "error" ELSE "ok"
                /\ steps' = steps
                /\ UNCHANGED <<content, writes>>
    /\ pc' = "end"
    /\ UNCHANGED <<mode, update, exists, prev, calls, parsed, matched>>
    /\ UNCHANGED coreVars
    /\ UNCHANGED diffVars

\* the test calls the assertion again on the same file
NextCall ==
    /\ pc = "end"
    /\ calls < MaxCalls
    /\ prev' = CallRecord
    /\ calls' = calls + 1
    /\ actual' \in IF mode = "json" THEN AssertJSONActuals ELSE AssertHTMLActuals
    /\ update' \in BOOLEAN
    /\ tb' = "ok" /\ steps' = <<>> /\ parsed' = <<>>
    /\ expected' = Null /\ diffs' = <<>>
    /\ hexp' = Null /\ hact' = Null /\ hdiffs' = <<>>
    /\ pc' = "stat"
    /\ UNCHANGED <<mode, cfg, keyOrder, hcfg, content, matched, exists, writes>>
    /\ UNCHANGED diffVars

NextAssert ==
    \/ StatMissing \/ ParseExpectedFile \/ ParseActual
    \/ CompareDocuments \/ UpdateOrReport \/ NextCall
SpecAssert == InitAssert /\ [][NextAssert]_vars


Init == InitJSON \/ InitHTML
Next == Compare \/ CompareHTML
Spec == Init /\ [][Next]_vars


(* Properties of the JSON comparator.                                      *)

DefaultConfig == Config(FALSE, <<>>, <<>>)

JSONDone == pc = "done" /\ mode = "json"

\* path q is path p or lies below it: p followed by a "." or "[" segment
AtOrBelow(q, p) == q = p \/ HasPrefix(q, p \o ".") \/ HasPrefix(q, p \o "[")

\* the reported differences at path p, and at or below it
DiffsAt(p) == SelectSeq(diffs, LAMBDA d : d.Path = p)
SubDiffs(p) == SelectSeq(diffs, LAMBDA d : AtOrBelow(d.Path, p))

RECURSIVE MatcherFree(_)
MatcherFree(x) ==
    CASE x.t = "matcher" -> FALSE
      [] x.t = "obj" -> \A k \in DOMAIN x.v : MatcherFree(x.v[k])
      [] x.t = "arr" -> \A i \in 1..Len(x.v) : MatcherFree(x.v[i])
      [] OTHER -> TRUE

RECURSIVE Depth(_)
Depth(x) ==
    CASE x.t = "obj" ->
            1 + (IF DOMAIN x.v = {} THEN 0
                 ELSE CHOOSE n \in {Depth(x.v[k]) : k \in DOMAIN x.v} :
                          \A k \in DOMAIN x.v : Depth(x.v[k]) <= n)
      [] x.t = "arr" ->
            1 + (IF x.v = <<>> THEN 0
                 ELSE CHOOSE n \in {Depth(x.v[i]) : i \in 1..Len(x.v)} :
                          \A i \in 1..Len(x.v) : Depth(x.v[i]) <= n)
      [] OTHER -> 0

\* C1: comparing a matcher-free document with itself under the default
\* configuration (no ignored fields, array order significant) reports no
\* difference.
C1_Identity ==
    (JSONDone /\ cfg = DefaultConfig /\ MatcherFree(expected) /\ actual = expected)
        => diffs = <<>>

\* a document nested three deep, holding an array, compared with itself
C1_Witness ==
    /\ JSONDone /\ cfg = DefaultConfig /\ actual = expected
    /\ Depth(expected) >= 3
    /\ diffs = <<>>

\* C2: an expected matcher other than Ignore at the (never ignored) root path
\* yields nothing when it accepts the actual value and otherwise exactly one
\* MatcherFailed difference at that path, carrying the description of the
\* matcher and the whole actual value; the same holds for a matcher that is
\* the value of a non-ignored key present on both sides.
C2_MatcherShortcut ==
    JSONDone =>
        /\ (IsMatcher(expected) /\ ~IsIgnore(expected)) =>
              diffs = IF Match(expected, actual) THEN <<>>
                      ELSE <<Difference("$", Str(MatcherString(expected)), actual,
                                        DiffMatcherFailed)>>
        /\ (expected.t = "obj" /\ actual.t = "obj") =>
              \A k \in DOMAIN expected.v \cap DOMAIN actual.v :
                  LET m == expected.v[k]
                      cp == "$." \o k
                  IN  (IsMatcher(m) /\ ~IsIgnore(m) /\ ~isFieldIgnored(cfg, cp)) =>
                          SubDiffs(cp) =
                              IF Match(m, actual.v[k]) THEN <<>>
                              ELSE <<Difference(cp, Str(MatcherString(m)), actual.v[k],
                                                DiffMatcherFailed)>>

\* a string matcher against an array of two members: one difference, none
\* for the members
C2_Witness ==
    /\ JSONDone /\ expected = AnyString
    /\ actual.t = "arr" /\ Len(actual.v) = 2
    /\ Len(diffs) = 1 /\ diffs[1].Type = DiffMatcherFailed
    /\ diffs[1].Expected = Str("{{anyString}}")

\* the keys of the expected object that compareObjects compares
ComparedKeys ==
    {k \in DOMAIN expected.v :
        ~isFieldIgnored(cfg, "$." \o k) /\ ~IsIgnore(expected.v[k])}

\* the keys present only in the actual object, at a non-ignored path
ExtraKeys ==
    {k \in DOMAIN actual.v \ DOMAIN expected.v : ~isFieldIgnored(cfg, "$." \o k)}

\* C3: comparing two objects, every compared key of expected (path not
\* ignored, value not Ignore) that is absent from actual yields exactly one
\* Removed at path.key, every compared key present in actual yields the
\* result of the recursive comparison, every key present only in actual at
\* a non-ignored path yields exactly one Added at path.key, and nothing else
\* is reported.
C3_ObjectComparison ==
    (JSONDone /\ expected.t = "obj" /\ actual.t = "obj") =>
        /\ \A k \in ComparedKeys :
              LET cp == "$." \o k
              IN  IF k \notin DOMAIN actual.v
                  THEN SubDiffs(cp) = <<Difference(cp, expected.v[k], Null, DiffRemoved)>>
                  ELSE SubDiffs(cp) = compare(expected.v[k], actual.v[k], cp, cfg)
        /\ \A k \in ExtraKeys :
              SubDiffs("$." \o k) =
                  <<Difference("$." \o k, Null, actual.v[k], DiffAdded)>>
        /\ \A i \in 1..Len(diffs) :
              \E k \in ComparedKeys \cup ExtraKeys : AtOrBelow(diffs[i].Path, "$." \o k)

\* an AnyValue key missing from actual next to a key only actual has
C3_Witness ==
    /\ JSONDone /\ expected.t = "obj" /\ actual.t = "obj"
    /\ \E k \in ComparedKeys : expected.v[k] = AnyValue /\ k \notin DOMAIN actual.v
    /\ ExtraKeys # {}
    /\ Len(diffs) = 2
    /\ {diffs[1].Type, diffs[2].Type} = {DiffRemoved, DiffAdded}

IsLeaf(x) == x.t \in {"str", "num", "bool"}

\* C4: an expected string, number or bool against a non-null actual value
\* yields exactly one TypeMismatch when the types differ, exactly one
\* Changed carrying both values when only the values differ, and nothing
\* when they are equal; {a: "x", b: 1} against {a: "y", b: 1} yields
\* exactly one Changed at $.a.
C4_LeafComparison ==
    JSONDone =>
        /\ (IsLeaf(expected) /\ actual # Null) =>
              diffs = IF actual.t # expected.t
                      THEN <<Difference("$", expected, actual, DiffTypeMismatch)>>
                      ELSE IF actual.v # expected.v
                      THEN <<Difference("$", expected, actual, DiffChanged)>>
                      ELSE <<>>
        /\ (/\ expected = Obj([k \in {"a", "b"} |-> IF k = "a" THEN Str("x") ELSE Num(2)])
            /\ actual = Obj([k \in {"a", "b"} |-> IF k = "a" THEN Str("y") ELSE Num(2)])
            /\ ~isFieldIgnored(cfg, "$.a") /\ ~isFieldIgnored(cfg, "$.b")) =>
              diffs = <<Difference("$.a", Str("x"), Str("y"), DiffChanged)>>

\* 1.0 against 1.5: one Changed with both numbers
C4_Witness ==
    /\ JSONDone /\ expected = Num(2) /\ actual = Num(3)
    /\ diffs = <<Difference("$", Num(2), Num(3), DiffChanged)>>

Min(a, b) == IF a <= b THEN a ELSE b

\* C5: comparing two arrays in order, every index below both lengths yields
\* the recursive comparison at path[i], every index from len(actual) up to
\* len(expected) exactly one Removed at path[i], every index from
\* len(expected) up to len(actual) exactly one Added at path[i]; the Added
\* and Removed differences at those indices number |len(expected) -
\* len(actual)|.
C5_OrderedArrays ==
    (JSONDone /\ expected.t = "arr" /\ actual.t = "arr"
              /\ ~shouldIgnoreArrayOrder(cfg, "$")) =>
        LET e == expected.v
            a == actual.v
            lo == Min(Len(e), Len(a))
            hi == Max(Len(e), Len(a))
        IN  /\ \A i \in 1..lo :
                  SubDiffs(IndexPath("$", i - 1)) = compare(e[i], a[i], IndexPath("$", i - 1), cfg)
            /\ \A i \in (Len(a) + 1)..Len(e) :
                  SubDiffs(IndexPath("$", i - 1)) =
                      <<Difference(IndexPath("$", i - 1), e[i], Null, DiffRemoved)>>
            /\ \A i \in (Len(e) + 1)..Len(a) :
                  SubDiffs(IndexPath("$", i - 1)) =
                      <<Difference(IndexPath("$", i - 1), Null, a[i], DiffAdded)>>
            /\ Len(SelectSeq(diffs, LAMBDA d :
                       /\ d.Type \in {DiffAdded, DiffRemoved}
                       /\ \E i \in (lo + 1)..hi : d.Path = IndexPath("$", i - 1)))
                  = hi - lo

\* two expected members against none: two Removed
C5_Witness ==
    /\ JSONDone /\ expected.t = "arr" /\ actual.t = "arr"
    /\ ~shouldIgnoreArrayOrder(cfg, "$")
    /\ Len(expected.v) = 2 /\ Len(actual.v) = 0
    /\ Len(diffs) = 2 /\ diffs[1].Type = DiffRemoved /\ diffs[2].Type = DiffRemoved
    /\ diffs[2].Path = "$[1]"

\* stands for a document that does not have the shape of a wrapper
Nothing == [t |-> "none"]

\* the document below wrapper w in x; Nothing when x is not Wrap(w, ..)
RECURSIVE Below(_, _)
Below(w, x) ==
    IF w = <<>> THEN x
    ELSE IF Head(w) = "[]"
    THEN IF x.t = "arr" /\ Len(x.v) = 1 THEN Below(Tail(w), x.v[1]) ELSE Nothing
    ELSE IF x.t = "obj" /\ DOMAIN x.v = {Head(w)} THEN Below(Tail(w), x.v[Head(w)])
    ELSE Nothing

\* the members of sequence a are pairwise distinct
Distinct(a) == \A i, j \in 1..Len(a) : i # j => a[i] # a[j]

\* expected and actual are Wrap(w, Arr(a)) and Wrap(w, Arr(b)) for an array a
\* of pairwise distinct matcher-free members and a reordering b of it
IsReorderingBelow(w) ==
    LET e == Below(w, expected)
        a == Below(w, actual)
    IN  /\ e.t = "arr" /\ a.t = "arr" /\ Len(e.v) = Len(a.v)
        /\ Distinct(e.v) /\ Distinct(a.v)
        /\ \A i \in 1..Len(e.v) : MatcherFree(e.v[i])
        /\ {e.v[i] : i \in 1..Len(e.v)} = {a.v[i] : i \in 1..Len(a.v)}

\* C6: with IgnoreArrayOrder set and no ignored fields, an array of pairwise
\* distinct matcher-free members, at the root or below keys and array
\* positions, compares without difference against every reordering of
\* itself.
C6_PermutationInvariance ==
    (JSONDone /\ cfg.IgnoreArrayOrder /\ cfg.IgnoredFields = <<>>
              /\ \E w \in Wrappers \cup {<<>>} : IsReorderingBelow(w))
        => diffs = <<>>

\* three members, among them two arrays, in another order
C6_Witness ==
    /\ JSONDone /\ cfg.IgnoreArrayOrder /\ cfg.IgnoredFields = <<>>
    /\ IsReorderingBelow(<<"a">>)
    /\ Len(expected.v["a"].v) = 3
    /\ expected.v["a"].v[1] # actual.v["a"].v[1]
    /\ expected.v["a"].v[2] # actual.v["a"].v[2]
    /\ \E i \in 1..3 : expected.v["a"].v[i].t = "arr"
    /\ diffs = <<>>

\* the paths of the object members of document x, itself at path
RECURSIVE FieldPaths(_, _)
FieldPaths(x, path) ==
    CASE x.t = "obj" ->
            UNION {{path \o "." \o k} \cup FieldPaths(x.v[k], path \o "." \o k) :
                      k \in DOMAIN x.v}
      [] x.t = "arr" ->
            UNION {FieldPaths(x.v[i], IndexPath(path, i - 1)) : i \in 1..Len(x.v)}
      [] OTHER -> {}

\* the paths of the object members of document x whose value is Ignore
RECURSIVE IgnorePaths(_, _)
IgnorePaths(x, path) ==
    CASE x.t = "obj" ->
            UNION {(IF x.v[k] = Ignore THEN {path \o "." \o k} ELSE {})
                   \cup IgnorePaths(x.v[k], path \o "." \o k) : k \in DOMAIN x.v}
      [] x.t = "arr" ->
            UNION {IgnorePaths(x.v[i], IndexPath(path, i - 1)) : i \in 1..Len(x.v)}
      [] OTHER -> {}

\* C8: for every object field of the expected document whose value is the
\* Ignore matcher, no difference is reported at or below the path of that
\* field, whether actual holds a value of any type there, null, or lacks
\* the key.
C8_IgnoreSkipsField ==
    JSONDone => \A p \in IgnorePaths(expected, "$") : SubDiffs(p) = <<>>

\* an Ignore field that actual lacks, next to a field reported as changed
C8_Witness ==
    /\ JSONDone /\ cfg = DefaultConfig
    /\ expected.t = "obj" /\ actual.t = "obj"
    /\ DOMAIN expected.v = {"a", "b"} /\ DOMAIN actual.v = {"b"}
    /\ expected.v["a"] = Ignore
    /\ Len(diffs) = 1 /\ diffs[1].Path = "$.b"

\* path is an IgnoredFields entry, or its last dot-separated segment is one
NamedIgnored(path) ==
    \E i \in 1..Len(cfg.IgnoredFields) :
        \/ cfg.IgnoredFields[i] = path
        \/ /\ Contains(path, "." \o cfg.IgnoredFields[i])
           /\ SubSeq(path, Len(path) - Len(cfg.IgnoredFields[i]), Len(path))
                 = "." \o cfg.IgnoredFields[i]
           /\ ~Contains(cfg.IgnoredFields[i], ".")

\* C9: in every configuration, for every object field of either document
\* whose path equals an IgnoredFields entry or ends in a dot-separated
\* segment equal to one, no difference is reported at or below that path,
\* whether the values differ, the field is missing from actual, or it is
\* present only in actual.
C9_IgnoredFields ==
    JSONDone =>
        \A p \in FieldPaths(expected, "$") \cup FieldPaths(actual, "$") :
            NamedIgnored(p) => SubDiffs(p) = <<>>

\* field b ignored by name: present only in actual below an array position,
\* while its sibling is reported
C9_Witness ==
    /\ JSONDone /\ cfg.IgnoredFields = <<"b">>
    /\ "$[0].b" \in FieldPaths(actual, "$") \ FieldPaths(expected, "$")
    /\ "$[0].a" \in FieldPaths(actual, "$") \cap FieldPaths(expected, "$")
    /\ Len(diffs) = 1 /\ diffs[1].Path = "$[0].a"

\* path equals p or extends it across a segment boundary
InScope(path, p) == path = p \/ HasPrefix(path, p \o ".") \/ HasPrefix(path, p \o "[")

\* C10: with IgnoreArrayOrder off, IgnoreArrayOrderAt("$.a") given and no
\* ignored fields, an array of pairwise distinct members compared against a
\* different reordering of itself yields no difference if and only if the
\* path of the array is $.a or extends it by "." or "["; at every other
\* path, $.ab among them, the reordering is reported.
C10_IgnoreArrayOrderAtScope ==
    (JSONDone /\ ~cfg.IgnoreArrayOrder /\ cfg.IgnoreArrayOrderPaths = <<"$.a">>
              /\ cfg.IgnoredFields = <<>> /\ expected # actual) =>
        \A w \in Wrappers :
            IsReorderingBelow(w) =>
                ((diffs = <<>>) <=> InScope(WrapPath("$", w), "$.a"))

\* a reordering at $.ab is reported at its positions
C10_Witness ==
    /\ JSONDone /\ ~cfg.IgnoreArrayOrder /\ cfg.IgnoreArrayOrderPaths = <<"$.a">>
    /\ cfg.IgnoredFields = <<>> /\ expected # actual
    /\ IsReorderingBelow(<<"ab">>)
    /\ Len(diffs) >= 2
    /\ \A i \in 1..Len(diffs) : HasPrefix(diffs[i].Path, "$.ab[")

HTMLDone == pc = "done" /\ mode = "html"

\* the wrappers made of object keys, the empty one for the root included
KeyWrappers == {<<>>} \cup {w \in Wrappers : \A i \in 1..Len(w) : w[i] # "[]"}

\* the array at path is compared without regard to order
Unordered(path) ==
    \/ cfg.IgnoreArrayOrder
    \/ \E i \in 1..Len(cfg.IgnoreArrayOrderPaths) : InScope(path, cfg.IgnoreArrayOrderPaths[i])

\* the children of the body of a parsed document
BodyKids(root) == root.Children[2].Children

\* the one difference an unordered comparison of n against m members yields
LengthDiff(path, n, m) ==
    Difference(path, Str("array of length " \o ToString(n)),
               Str("array of length " \o ToString(m)), DiffChanged)
ChildCountDiff(path, n, m) ==
    HTMLDifference(path, Str(ToString(n) \o " children"),
                   Str(ToString(m) \o " children"), DiffChanged)

C7_WitnessJSON ==
    /\ JSONDone /\ Unordered("$.a.b") /\ cfg.IgnoredFields = <<>>
    /\ Below(<<"a", "b">>, expected).t = "arr" /\ Below(<<"a", "b">>, actual).t = "arr"
    /\ Len(Below(<<"a", "b">>, expected).v) = 2 /\ Len(Below(<<"a", "b">>, actual).v) = 1
    /\ diffs = <<LengthDiff("$.a.b", 2, 1)>>


(* Accumulation of the differences.                                        *)

RECURSIVE Concat(_)
Concat(ss) == IF ss = <<>> THEN <<>> ELSE Head(ss) \o Concat(Tail(ss))

\* what the key k of the expected object e contributes at path
KeyPiece(e, a, path, k) ==
    LET cp == path \o "." \o k
    IN  IF isFieldIgnored(cfg, cp) \/ IsIgnore(e.v[k]) THEN <<>>
        ELSE IF k \notin DOMAIN a.v THEN <<Difference(cp, e.v[k], Null, DiffRemoved)>>
        ELSE compare(e.v[k], a.v[k], cp, cfg)

\* what the key k of the actual object a contributes in the second pass
AddedPiece(e, a, path, k) ==
    LET cp == path \o "." \o k
    IN  IF isFieldIgnored(cfg, cp) \/ k \in DOMAIN e.v THEN <<>>
        ELSE <<Difference(cp, Null, a.v[k], DiffAdded)>>

\* what position i (from 1) of two arrays contributes
IndexPiece(e, a, path, i) ==
    LET cp == IndexPath(path, i - 1)
    IN  IF i > Len(e.v) THEN <<Difference(cp, Null, a.v[i], DiffAdded)>>
        ELSE IF i > Len(a.v) THEN <<Difference(cp, e.v[i], Null, DiffRemoved)>>
        ELSE compare(e.v[i], a.v[i], cp, cfg)

ObjectConcat(e, a, path) ==
    LET ek == KeysInOrder(e.v)
        ak == KeysInOrder(a.v)
    IN  Concat([i \in 1..Len(ek) |-> KeyPiece(e, a, path, ek[i])])
        \o Concat([i \in 1..Len(ak) |-> AddedPiece(e, a, path, ak[i])])

ArrayConcat(e, a, path) ==
    Concat([i \in 1..Max(Len(e.v), Len(a.v)) |-> IndexPiece(e, a, path, i)])

\* res, the result of comparing e with a at path, is the concatenation of
\* the contributions of all keys or positions, and so are the results below
RECURSIVE Accumulated(_, _, _, _)
Accumulated(e, a, path, res) ==
    IF isFieldIgnored(cfg, path) THEN TRUE
    ELSE IF e.t = "obj" /\ a.t = "obj"
    THEN /\ res = ObjectConcat(e, a, path)
         /\ \A k \in DOMAIN e.v \cap DOMAIN a.v :
               Accumulated(e.v[k], a.v[k], path \o "." \o k,
                           compare(e.v[k], a.v[k], path \o "." \o k, cfg))
    ELSE IF e.t = "arr" /\ a.t = "arr" /\ ~shouldIgnoreArrayOrder(cfg, path)
    THEN /\ res = ArrayConcat(e, a, path)
         /\ \A i \in 1..Min(Len(e.v), Len(a.v)) :
               Accumulated(e.v[i], a.v[i], IndexPath(path, i - 1),
                           compare(e.v[i], a.v[i], IndexPath(path, i - 1), cfg))
    ELSE TRUE

\* two objects over the same keys whose fields all mismatch as scalars
AllFieldsMismatch ==
    /\ expected.t = "obj" /\ actual.t = "obj"
    /\ DOMAIN expected.v = DOMAIN actual.v
    /\ \A k \in DOMAIN expected.v :
          /\ IsLeaf(expected.v[k]) /\ IsLeaf(actual.v[k])
          /\ expected.v[k] # actual.v[k]
          /\ ~isFieldIgnored(cfg, "$." \o k)

\* C14: differences are accumulated: the result of compare for an object or
\* an order-sensitive array, at the root and below it, is the concatenation
\* of the results of all its keys or positions, so no difference suppresses
\* that of a sibling; an object with k fields that each mismatch as scalars
\* yields exactly k differences, one at each field.
C14_Accumulated ==
    JSONDone =>
        /\ Accumulated(expected, actual, "$", diffs)
        /\ AllFieldsMismatch =>
              /\ Len(diffs) = Cardinality(DOMAIN expected.v)
              /\ \A k \in DOMAIN expected.v : Len(DiffsAt("$." \o k)) = 1

C14_Witness ==
    /\ JSONDone
    /\ AllFieldsMismatch
    /\ Cardinality(DOMAIN expected.v) = 2
    /\ Len(diffs) = 2
    /\ diffs[1].Path # diffs[2].Path

\* differences of two positions of an array, and of two keys below a key
C14_WitnessNested ==
    /\ JSONDone
    /\ ~isFieldIgnored(cfg, "$.a")
    /\ Len(SubDiffs("$.a")) >= 2
    /\ Len(diffs) >= 2

(* Properties of the line differ.                                          *)

DiffDone == pc = "done" /\ mode = "diff"

\* applying the ops as a patch: Insert and Equal lines kept, Delete lines dropped
Patch(os) ==
    LET kept == SelectSeq(os, LAMBDA o : o.op \in {diffInsert, diffEqual})
    IN  [k \in 1..Len(kept) |-> kept[k].line]

CountOp(os, op) == Len(SelectSeq(os, LAMBDA o : o.op = op))

\* s is a subsequence of t
RECURSIVE IsSubseq(_, _)
IsSubseq(s, t) ==
    IF s = <<>> THEN TRUE
    ELSE IF t = <<>> THEN FALSE
    ELSE IF Head(s) = Head(t) THEN IsSubseq(Tail(s), Tail(t))
    ELSE IsSubseq(s, Tail(t))

\* the length of a longest common subsequence, by enumeration
LCSLen(X, Y) ==
    LET common == {s \in LineSeqs : IsSubseq(s, X) /\ IsSubseq(s, Y)}
    IN  CHOOSE n \in 0..MaxLines :
            /\ \E s \in common : Len(s) = n
            /\ \A s \in common : Len(s) <= n

\* C11: the operations computeDiff produces for X and Y, read in output
\* order, reconstruct Y exactly when Insert and Equal lines are kept and
\* Delete lines are dropped; the returned lines are those operations
\* rendered one by one.
C11_ValidPatch ==
    DiffDone =>
        /\ Patch(ops) = lact
        /\ Len(result) = Len(ops)

C11_Witness ==
    /\ DiffDone
    /\ Len(lexp) = MaxLines /\ Len(lact) = MaxLines
    /\ CountOp(ops, diffEqual) > 0
    /\ CountOp(ops, diffDelete) > 0
    /\ CountOp(ops, diffInsert) > 0
    /\ Patch(ops) = lact

\* C12: the number of Equal entries is the length of a longest common
\* subsequence of X and Y, which is the bottom-right cell of the table; the
\* Delete and Insert entries number len(X) + len(Y) - 2*LCS; computeDiff(X, X)
\* emits only Equal entries.
C12_Minimal ==
    DiffDone =>
        LET lcs == LCSLen(lexp, lact)
        IN  /\ dpTable(lexp, lact)[Len(lexp), Len(lact)] = lcs
            /\ CountOp(ops, diffEqual) = lcs
            /\ CountOp(ops, diffDelete) + CountOp(ops, diffInsert)
                   = Len(lexp) + Len(lact) - 2 * lcs
            /\ (lexp = lact => \A k \in 1..Len(ops) : ops[k].op = diffEqual)

C12_Witness ==
    /\ DiffDone
    /\ lexp = <<"a", "b", "c">> /\ lact = <<"c", "a", "b">>
    /\ CountOp(ops, diffEqual) = 2
    /\ CountOp(ops, diffDelete) = 1 /\ CountOp(ops, diffInsert) = 1

C12_WitnessSame ==
    /\ DiffDone
    /\ lexp = lact /\ Len(lexp) = MaxLines
    /\ CountOp(ops, diffEqual) = MaxLines

(* Properties of the parsers.                                              *)

\* the template expressions written in a JSON content
RECURSIVE TemplatesOfJSON(_)
TemplatesOfJSON(c) ==
    CASE c.t = "tmpl" -> {c.v}
      [] c.t = "arr" -> UNION {TemplatesOfJSON(c.v[i]) : i \in 1..Len(c.v)}
      [] c.t = "cobj" -> UNION {TemplatesOfJSON(c.v[i].v) : i \in 1..Len(c.v)}
      [] OTHER -> {}

TemplatesOfText(pieces) ==
    {pieces[i].v : i \in {j \in 1..Len(pieces) : pieces[j].t = "tmpl"}}

\* the template expressions written in an HTML content
RECURSIVE TemplatesOfHTML(_)
TemplatesOfHTML(kids) ==
    UNION {IF kids[i].t = "cel"
           THEN UNION {TemplatesOfText(kids[i].attrs[j].v) : j \in 1..Len(kids[i].attrs)}
                \cup TemplatesOfHTML(kids[i].kids)
           ELSE TemplatesOfText(kids[i].v) : i \in 1..Len(kids)}

\* the content holds an unrecognized expression or a regex that does not compile
HasBadExpr ==
    (IF mode = "json" THEN TemplatesOfJSON(content) ELSE TemplatesOfHTML(content))
        \cap (UnknownExprs \cup BadRegexExprs) # {}

Parsing == pc = "parse"

\* C13: an unrecognized template expression or a regex pattern that does not
\* compile, in a JSON or an HTML expected document, makes the parser return
\* an error and no document, and no comparison runs.
C13_ParseErrors ==
    (~Parsing /\ HasBadExpr) =>
        /\ parsed.err # ""
        /\ parsed.doc.nil
        /\ pc = "fatal"
        /\ diffs = <<>> /\ hdiffs = <<>>

\* the HTML parser has returned a document for content with an unknown expression
C13_Witness ==
    /\ mode = "html" /\ pc = "done"
    /\ content = <<CEl("p", <<>>, <<CTxt(<<Tmpl("unknown")>>)>>)>>
    /\ parsed.err = "" /\ ~parsed.doc.nil
    /\ hdiffs # <<>>

\* the JSON half of C13 on its own
C13_JSONParseErrors ==
    (~Parsing /\ mode = "json" /\ HasBadExpr) =>
        /\ parsed.err # ""
        /\ parsed.doc.nil
        /\ pc = "fatal"
        /\ diffs = <<>>

(* Properties of concurrent callers.                                       *)

\* the goroutine is inside computeDiff
InFlight(g) == gor[g].pc \notin {"start", "done"}

\* C15: when two callers run computeDiff concurrently on independent
\* inputs, no interleaving has one invocation write a variable that the
\* other invocation reads or writes.
C15_NoSharedWrites ==
    mode = "conc" =>
        \A g \in Goroutines : \A h \in Goroutines \ {g} :
            (InFlight(g) /\ InFlight(h)) =>
                gor[g].writes \cap (gor[h].reads \cup gor[h].writes) = {}

\* both callers are inside computeDiff and both have written colorsEnabled
C15_Witness ==
    /\ mode = "conc"
    /\ InFlight(1) /\ InFlight(2)
    /\ "colorsEnabled" \in gor[1].writes
    /\ "colorsEnabled" \in gor[2].writes

(* Properties of the matchers called on their own.                         *)

MatchDone == pc = "done" /\ mode = "match"

C16_WitnessAccepted ==
    /\ MatchDone /\ expected = AnyInt
    /\ actual \in {Num(8), Num(0 - 8), IntVal(4)}
    /\ matched

(* Paths of the HTML differences.                                          *)

\* the children of the one div below the body
DivKids(root) == BodyKids(root)[1].Children

IsSpanWith(node, text) ==
    /\ node.Type = HTMLElement /\ node.Tag = "span"
    /\ Len(node.Children) = 1
    /\ node.Children[1].Type = HTMLText /\ node.Children[1].Text = Str(text)

\* a run on two documents whose body holds one div of spans, default options
SiblingRun ==
    /\ HTMLDone /\ hcfg = HDefault
    /\ hexp.Tag = "html" /\ hact.Tag = "html"
    /\ Len(BodyKids(hexp)) = 1 /\ Len(BodyKids(hact)) = 1
    /\ BodyKids(hexp)[1].Tag = "div" /\ BodyKids(hact)[1].Tag = "div"
    /\ DivKids(hexp) # <<>> /\ DivKids(hact) # <<>>
    /\ \A i \in 1..Len(DivKids(hexp)) : DivKids(hexp)[i].Tag = "span"
    /\ \A i \in 1..Len(DivKids(hact)) : DivKids(hact)[i].Tag = "span"

\* expected <div><span>First</span><span>Second</span></div> against
\* actual <div><span>First</span></div>
SecondSpanMissing ==
    /\ SiblingRun
    /\ Len(DivKids(hexp)) = 2 /\ Len(DivKids(hact)) = 1
    /\ IsSpanWith(DivKids(hexp)[1], "First") /\ IsSpanWith(DivKids(hexp)[2], "Second")
    /\ IsSpanWith(DivKids(hact)[1], "First")

\* C17: HTML difference paths carry sibling indices: a difference about the
\* n-th same-tag sibling (n >= 1) has tag[n] in its path, two distinct
\* same-tag siblings never produce differences with the same path, and
\* <div><span>First</span><span>Second</span></div> against
\* <div><span>First</span></div> gives exactly one Removed whose path ends
\* in span[1].
C17_SiblingIndexPaths ==
    SiblingRun =>
        /\ \A i \in 1..Len(hdiffs) : \A j \in 1..Len(hdiffs) :
              i # j => hdiffs[i].Path # hdiffs[j].Path
        /\ \A n \in 2..Len(DivKids(hexp)) :
              n > Len(DivKids(hact)) =>
                  \E i \in 1..Len(hdiffs) :
                      /\ hdiffs[i].Type = DiffRemoved
                      /\ hdiffs[i].Path = DivKids(hexp)[n].Path
        /\ SecondSpanMissing =>
              /\ Len(hdiffs) = 1
              /\ hdiffs[1].Type = DiffRemoved
              /\ hdiffs[1].Path = "html > body > div > span[1]"

\* the missing second span is reported at the path of the first
C17_Witness ==
    /\ SecondSpanMissing
    /\ Len(hdiffs) = 1
    /\ hdiffs[1].Type = DiffRemoved
    /\ hdiffs[1].Path = "html > body > div > span"
    /\ DivKids(hexp)[1].Path = "html > body > div > span"
    /\ DivKids(hexp)[2].Path = "html > body > div > span[1]"

\* two spans that both differ are reported at one and the same path
C17_WitnessSamePath ==
    /\ SiblingRun
    /\ Len(hdiffs) = 2
    /\ hdiffs[1].Path = hdiffs[2].Path

(* Placeholders embedded in HTML values.                                   *)

\* the paragraph of the body
TheP(root) == BodyKids(root)[1]

\* the expected class attribute is btn btn- followed by the expression e
ClassEmbeds(e) ==
    content = <<CEl("p", <<Member("class", <<Lit("btn btn-"), Tmpl(e)>>)>>,
                    <<CTxt(<<Lit("x")>>)>>)>>

\* the expected text is btn btn- followed by the expression e
TextEmbeds(e) == content = <<CEl("p", <<>>, <<CTxt(<<Lit("btn btn-"), Tmpl(e)>>)>>)>>

\* the part of an actual value after the literal btn btn-
AfterLiteral(str) == SubSeq(str, Len("btn btn-") + 1, Len(str))

\* the matcher of e accepts the part of str after the literal
PartAccepted(e, str) == Match(parseMatcher(trimSpace(e)).m, Str(AfterLiteral(str)))

\* C18: an expected HTML attribute or text value that embeds a placeholder
\* after literal characters is compared part by part: when the actual value
\* has the literal part and the matcher accepts the rest there is no
\* difference, and when the matcher rejects the rest there is exactly one
\* MatcherFailed difference.
C18_EmbeddedPlaceholders ==
    (HTMLDone /\ content # <<>>) =>
        \A e \in GoodExprs :
            /\ (/\ ClassEmbeds(e)
                /\ "class" \in DOMAIN TheP(hact).Attributes
                /\ HasPrefix(TheP(hact).Attributes["class"].v, "btn btn-")) =>
                   IF PartAccepted(e, TheP(hact).Attributes["class"].v)
                   THEN hdiffs = <<>>
                   ELSE Len(hdiffs) = 1 /\ hdiffs[1].Type = DiffMatcherFailed
            /\ (/\ TextEmbeds(e)
                /\ TheP(hact).Attributes = EmptyMap
                /\ HasPrefix(TheP(hact).Children[1].Text.v, "btn btn-")) =>
                   IF PartAccepted(e, TheP(hact).Children[1].Text.v)
                   THEN hdiffs = <<>>
                   ELSE Len(hdiffs) = 1 /\ hdiffs[1].Type = DiffMatcherFailed

\* class="btn btn-{{oneOf "x" "y"}}" against class="btn btn-x" is reported
\* as a changed attribute
C18_Witness ==
    /\ HTMLDone
    /\ ClassEmbeds("oneOf \"x\" \"y\"")
    /\ TheP(hact).Attributes = ("class" :> Str("btn btn-x"))
    /\ TheP(hexp).Attributes = ("class" :> Str("btn btn-{{oneOf \"x\" \"y\"}}"))
    /\ Len(hdiffs) = 1
    /\ hdiffs[1].Type = DiffChanged
    /\ hdiffs[1].Path = "html > body > p @class"

\* and against class="btn btn-z" as a changed attribute too, not as a
\* failed matcher
C18_WitnessRejected ==
    /\ HTMLDone
    /\ ClassEmbeds("oneOf \"x\" \"y\"")
    /\ TheP(hact).Attributes = ("class" :> Str("btn btn-z"))
    /\ Len(hdiffs) = 1
    /\ hdiffs[1].Type = DiffChanged

(* Tag mismatch.                                                            *)

\* both bodies hold exactly one child, an element, and the configuration is
\* the default one
OneElementEach ==
    /\ HTMLDone
    /\ content = <<>>
    /\ hcfg = HDefault
    /\ Len(BodyKids(hexp)) = 1 /\ Len(BodyKids(hact)) = 1
    /\ TheP(hexp).Type = HTMLElement /\ TheP(hact).Type = HTMLElement

\* the difference that reports the tag of the expected element e against the
\* tag of the actual element a
TagDifference(e, a) ==
    [Path |-> "html > body > " \o e.Tag,
     Expected |-> Str("<" \o e.Tag \o ">"),
     Actual |-> Str("<" \o a.Tag \o ">"),
     Type |-> DiffChanged]

\* the two tags are the same when letter case is set aside
SameTag(e, a) == ToLower(e.Tag) = ToLower(a.Tag)

\* C19: when the expected and the actual element have different tag names
\* (letter case set aside) the result is exactly one Changed difference at
\* the path of the element, with nothing about attributes or children; when
\* the tag names are equal up to case no tag difference is reported.
C19_TagMismatch ==
    OneElementEach =>
        IF SameTag(TheP(hexp), TheP(hact))
        THEN \A i \in 1..Len(hdiffs) :
                 ~(/\ hdiffs[i].Path = "html > body > " \o TheP(hexp).Tag
                   /\ hdiffs[i].Type = DiffChanged)
        ELSE hdiffs = <<TagDifference(TheP(hexp), TheP(hact))>>

\* a paragraph with a class and a text against a span with another class
\* and another text: one difference
C19_Witness ==
    /\ OneElementEach
    /\ TheP(hexp).Tag = "p" /\ TheP(hact).Tag = "span"
    /\ TheP(hexp).Attributes = ("class" :> Str("x"))
    /\ TheP(hact).Attributes = ("class" :> Str("y"))
    /\ Len(TheP(hexp).Children) = 1 /\ Len(TheP(hact).Children) = 0
    /\ Len(hdiffs) = 1
    /\ hdiffs[1].Path = "html > body > p"

\* the same tag with another class and another text: two differences, none
\* about the tag
C19_WitnessSameTag ==
    /\ OneElementEach
    /\ TheP(hexp).Tag = "p" /\ TheP(hact).Tag = "p"
    /\ Len(hdiffs) = 2
    /\ hdiffs[1].Path = "html > body > p @class"
    /\ hdiffs[2].Path = "html > body > p (text)"

(* Ignored elements and comments.                                           *)

\* the tag is one of the ignored tags of c, letter case set aside
IgnoredTag(c, tag) ==
    \E i \in 1..Len(c.IgnoredElements) : ToLower(c.IgnoredElements[i]) = ToLower(tag)

\* the node is one the configuration sets aside
IsIgnoredNode(c, node) ==
    \/ node.Type = HTMLElement /\ IgnoredTag(c, node.Tag)
    \/ node.Type = HTMLComment /\ c.IgnoreComments

\* the tree without the ignored elements and comments of every child list
RECURSIVE Strip(_, _)
RECURSIVE StripKids(_, _)
StripKids(kids, c) ==
    IF kids = <<>> THEN <<>>
    ELSE IF IsIgnoredNode(c, Head(kids)) THEN StripKids(Tail(kids), c)
    ELSE <<Strip(Head(kids), c)>> \o StripKids(Tail(kids), c)

Strip(node, c) == [node EXCEPT !.Children = StripKids(node.Children, c)]

\* the configuration sets some node aside
Ignoring == HTMLDone /\ content = <<>> /\ (hcfg.IgnoreComments \/ hcfg.IgnoredElements # <<>>)

\* number of children of the body that are set aside
IgnoredCount(root) ==
    Len(SelectSeq(BodyKids(root), LAMBDA node : IsIgnoredNode(hcfg, node)))

\* C20: the difference list is the one of the two documents with every
\* ignored element and every ignored comment taken out of every child
\* list, so adding, removing or changing such nodes on either side never
\* changes it.
C20_IgnoredNoInfluence ==
    Ignoring => hdiffs = compareHTML(Strip(hexp, hcfg), Strip(hact, hcfg), hcfg)

\* an ignored node next to a paragraph on the expected side, two ignored
\* nodes and no paragraph on the actual side, compared in any order: the one
\* difference is the one of the missing paragraph
C20_Witness ==
    /\ Ignoring
    /\ hcfg.IgnoreComments /\ hcfg.IgnoredElements = <<"span">>
    /\ IgnoredCount(hexp) = 1 /\ Len(BodyKids(hexp)) = 2
    /\ IgnoredCount(hact) = 2 /\ Len(BodyKids(hact)) = 2
    /\ Len(hdiffs) = 1
    /\ hdiffs[1].Path = "html > body"
    /\ hdiffs[1].Type = DiffChanged

\* an ignored comment on the actual side only and no difference
C20_WitnessComment ==
    /\ Ignoring
    /\ hcfg.IgnoreComments /\ hcfg.IgnoredElements = <<>>
    /\ IgnoredCount(hexp) = 0 /\ IgnoredCount(hact) = 1
    /\ Len(BodyKids(hexp)) = 1
    /\ hdiffs = <<>>

(* Whitespace.                                                              *)

\* a div below the body with the given children, as html.Parse builds it
DivDocument(kids) == Document(FALSE, <<El("div", EmptyMap, kids)>>)

\* child lists of a div with and without whitespace-only text
WsKidSeqs == KidSeqs({El("p", EmptyMap, <<>>), Txt(Str(" "))}, MaxKids)

\* number of whitespace-only text nodes of a child list
WsCount(kids) ==
    Len(SelectSeq(kids, LAMBDA n : n.Type = TextNode /\ TrimSpace(n.Val.v) = ""))

\* the child list without its whitespace-only text nodes
WithoutWs(kids) ==
    SelectSeq(kids, LAMBDA n : ~(n.Type = TextNode /\ TrimSpace(n.Val.v) = ""))

\* the text of the one paragraph of the body
PText(root) == TheP(root).Children[1].Text.v

\* both bodies hold one paragraph with one text and nothing else
OneTextEach ==
    /\ HTMLDone
    /\ content = <<>>
    /\ hcfg \in TextConfigs
    /\ Len(BodyKids(hexp)) = 1 /\ Len(BodyKids(hact)) = 1
    /\ TheP(hexp).Tag = "p" /\ TheP(hact).Tag = "p"
    /\ TheP(hexp).Attributes = EmptyMap /\ TheP(hact).Attributes = EmptyMap
    /\ Len(TheP(hexp).Children) = 1 /\ Len(TheP(hact).Children) = 1
    /\ TheP(hexp).Children[1].Type = HTMLText /\ TheP(hact).Children[1].Type = HTMLText
    /\ TheP(hexp).Children[1].Text.t = "str"

\* the text comparison of the whitespace policy: collapsed while
\* PreserveWhitespace is off, exact while it is on
C21_TextPolicy ==
    OneTextEach =>
        IF hcfg.PreserveWhitespace
        THEN (hdiffs = <<>>) <=> (PText(hexp) = PText(hact))
        ELSE (hdiffs = <<>>) <=>
                 (normalizeWhitespace(PText(hexp)) = normalizeWhitespace(PText(hact)))

\* C21: text is compared with runs of whitespace collapsed while
\* PreserveWhitespace is off and exactly while it is on; with
\* PreserveWhitespace on, two parsed documents that are the same but for a
\* whitespace-only text node on one side have a difference, and with it off
\* they have none.
C21_WhitespacePolicy ==
    /\ C21_TextPolicy
    /\ (HTMLDone /\ content = <<>>
        /\ hcfg \in {HDefault, [HDefault EXCEPT !.PreserveWhitespace = TRUE]}) =>
          \A e \in WsKidSeqs, a \in WsKidSeqs :
              (/\ WsCount(e) # WsCount(a)
               /\ WithoutWs(e) = WithoutWs(a)
               /\ hexp = convertToHTMLNode(DivDocument(e), "")
               /\ hact = convertToHTMLNode(DivDocument(a), "")) =>
                  ((hdiffs # <<>>) <=> hcfg.PreserveWhitespace)

\* <div><p></p> </div> against <div><p></p></div> with PreserveWhitespace:
\* both trees are the same after parsing and no difference is reported
C21_Witness ==
    /\ HTMLDone
    /\ content = <<>>
    /\ hcfg = [HDefault EXCEPT !.PreserveWhitespace = TRUE]
    /\ hexp = convertToHTMLNode(DivDocument(<<El("p", EmptyMap, <<>>), Txt(Str(" "))>>), "")
    /\ hact = convertToHTMLNode(DivDocument(<<El("p", EmptyMap, <<>>)>>), "")
    /\ hexp = hact
    /\ hdiffs = <<>>

\* x  y against x y: equal when collapsed, different when preserved
C21_WitnessText ==
    /\ OneTextEach
    /\ hcfg.PreserveWhitespace
    /\ PText(hexp) = "x  y" /\ PText(hact) = "x y"
    /\ Len(hdiffs) = 1

(* Matcher descriptions.                                                    *)

Described == pc = "described" /\ mode = "describe"

\* the matcher parsed from the description accepts what the matcher accepts
SameAcceptance ==
    /\ parsed.err = ""
    /\ \A v \in DescribeProbes : Match(parsed.m, v) = Match(expected, v)

\* the descriptions of the keywords and of the patterns without a backtick
\* parse to a matcher that accepts the same values
C22_KeywordsAndRegex ==
    (/\ Described
     /\ expected.v.kind # "oneOf"
     /\ ~(expected.v.kind = "regex" /\ Contains(expected.v.args[1], BT))) => SameAcceptance

\* C22: for every matcher parseMatcher produces, the text of String()
\* without the surrounding braces parses, and the matcher parsed from it
\* accepts exactly the values the matcher accepts.
C22_CanonicalDescription == Described => SameAcceptance

\* the description of oneOf "x" "y" is {{oneOf [x y]}}, which does not parse
C22_Witness ==
    /\ Described
    /\ expected = OneOf(<<"x", "y">>)
    /\ content = <<"oneOf [x y]">>
    /\ parsed.err = "invalid oneOf syntax: oneOf [x y]"

\* the description of a regex parses to the same regex
C22_WitnessRegex ==
    /\ Described
    /\ expected = Regex("^x$")
    /\ parsed.m = Regex("^x$")

(* Updating the expected file.                                              *)

\* the (path, leaf) pairs of a file content: template expressions and
\* scalars, and the empty containers
RECURSIVE ContentLeavesAt(_, _)
ContentLeavesAt(c, path) ==
    CASE c.t = "cobj" /\ Len(c.v) > 0 ->
            UNION {ContentLeavesAt(c.v[i].v, path \o "." \o c.v[i].k) : i \in 1..Len(c.v)}
      [] c.t = "arr" /\ Len(c.v) > 0 ->
            UNION {ContentLeavesAt(c.v[i], IndexPath(path, i - 1)) : i \in 1..Len(c.v)}
      [] OTHER -> {<<path, c>>}

\* the (path, leaf) pairs of a document
RECURSIVE ValueLeavesAt(_, _)
ValueLeavesAt(x, path) ==
    CASE x.t = "obj" /\ DOMAIN x.v # {} ->
            UNION {ValueLeavesAt(x.v[k], path \o "." \o k) : k \in DOMAIN x.v}
      [] x.t = "arr" /\ Len(x.v) > 0 ->
            UNION {ValueLeavesAt(x.v[i], IndexPath(path, i - 1)) : i \in 1..Len(x.v)}
      [] OTHER -> {<<path, x>>}

\* the (path, matcher) pairs of the expected document
MatcherLeaves(x) == {pr \in ValueLeavesAt(x, "$") : IsMatcher(pr[2])}

\* the call in progress was AssertJSON, found differences and has rewritten
\* the file with updateExpectedFile
Updated ==
    /\ pc = "end"
    /\ mode = "json"
    /\ steps = <<"stat", "parseExpected", "parseActual", "compare", "write">>

\* every path of a matcher of the expected document is the path of a leaf
\* of the actual document
MatcherPathsInActual ==
    \A pr \in MatcherLeaves(expected) : \E av \in ValueLeavesAt(actual, "$") : av[1] = pr[1]

\* C23: after updateExpectedFile has rewritten the file, every matcher of
\* the original expected document stands, as its template expression, at
\* its original path in the new file, and every other path of the new file
\* holds the value of the actual document.
C23_UpdatePreservesMatchers ==
    (Updated /\ MatcherPathsInActual) =>
        ContentLeavesAt(content, "$") =
            {<<av[1],
               IF \E pr \in MatcherLeaves(expected) : pr[1] = av[1]
               THEN Tmpl(StripBraces(MatcherString(
                        (CHOOSE pr \in MatcherLeaves(expected) : pr[1] = av[1])[2])))
               ELSE av[2]>> : av \in ValueLeavesAt(actual, "$")}

\* expected {"a": {"id": {{anyInt}}}, "id": 1} and actual
\* {"a": {"id": 2}, "id": 2}: the new file holds the matcher at $.id too
C23_Witness ==
    /\ Updated
    /\ expected = Obj(("a" :> Obj("id" :> AnyInt)) @@ ("id" :> Num(2)))
    /\ actual = Obj(("a" :> Obj("id" :> Num(4))) @@ ("id" :> Num(4)))
    /\ content = CObj(<<Member("a", CObj(<<Member("id", Tmpl("anyInt"))>>)),
                        Member("id", Tmpl("anyInt"))>>)

\* expected {"id": {{anyString}}} and actual {"id": -4}: the matcher is gone
C23_WitnessLost ==
    /\ Updated
    /\ expected = Obj("id" :> AnyString)
    /\ actual = Obj("id" :> Num(0 - 8))
    /\ content = CObj(<<Member("id", Num(0 - 8))>>)

\* expected {"id": {{anyString}}} and actual {"id": 1}: the matcher stays
\* and nothing else is in the file
C23_WitnessKept ==
    /\ Updated
    /\ expected = Obj("id" :> AnyString)
    /\ actual = Obj("id" :> Num(2))
    /\ content = CObj(<<Member("id", Tmpl("anyString"))>>)

(* A missing expected file.                                                 *)

\* the call is at os.Stat and the file does not exist
AtMissingFile == pc = "stat" /\ ~exists

\* the step ends the call and neither parses an expected document nor
\* compares
EndsWithoutComparing ==
    /\ pc' = "end"
    /\ \A i \in 1..Len(steps') : steps'[i] \notin {"parseExpected", "parseActual", "compare"}
    /\ UNCHANGED <<expected, hexp, diffs, hdiffs, parsed>>

\* the step creates the file and reports no failure; a JSON file reads back
\* as the actual document, an HTML file is the rendering of the actual
\* document
CreatesFromActual ==
    /\ exists' /\ writes' = writes + 1
    /\ tb' = "ok"
    /\ IF mode = "json"
       THEN ParseExpectedStringOf(content') = Returned(ExpectedJSON(actual, NoMatchers), "")
       ELSE content' = renderPrettyHTML(convertToHTMLNode(actual, ""))

\* the step reports a fatal failure and creates no file
FatalWithoutFile == tb' = "fatal" /\ ~exists' /\ writes' = writes /\ content' = content

C24_WitnessHTML ==
    /\ pc = "end" /\ mode = "html" /\ update
    /\ steps = <<"stat", "write">>
    /\ exists /\ writes = 1 /\ tb = "ok"
    /\ content = <<CEl("p", <<>>, <<CTxt(<<Lit("x")>>)>>)>>

\* outside update mode the call has ended with Fatalf and without a file
C24_WitnessFatal ==
    /\ pc = "end" /\ ~update
    /\ steps = <<"stat">>
    /\ ~exists /\ writes = 0 /\ tb = "fatal"

\* AssertJSON in update mode with actual bytes that are not JSON: Fatalf
\* and no file
C24_WitnessInvalid ==
    /\ pc = "end" /\ mode = "json" /\ update
    /\ steps = <<"stat", "unmarshal">>
    /\ actual = Invalid
    /\ ~exists /\ writes = 0 /\ tb = "fatal"

(* The pairing of an order-insensitive comparison.                         *)

\* the least member of a non-empty set of positions
Lowest(S) == CHOOSE j \in S : \A k \in S : j <= k

\* the partner of every position of e among the positions of a: the lowest
\* position that no earlier position of e has as its partner and whose member
\* fits, 0 when there is none; Fits(i, j) says that e[i] against a[j] compares
\* with zero differences
PartnerOf(n, m, Fits(_, _)) ==
    LET P[i \in 0..n] ==
            IF i = 0 THEN <<>>
            ELSE LET before == P[i - 1]
                     free == {j \in 1..m : /\ \A k \in 1..(i - 1) : before[k] # j
                                           /\ Fits(i, j)}
                 IN  Append(before, IF free = {} THEN 0 ELSE Lowest(free))
    IN  P[n]

\* the pairing of the arrays e and a compared at path
Partner(e, a, path) ==
    PartnerOf(Len(e.v), Len(a.v),
              LAMBDA i, j : compare(e.v[i], a.v[j], path, cfg) = <<>>)

\* the pairing of the child lists e and a compared at path
ChildPartner(e, a, path) ==
    PartnerOf(Len(e), Len(a),
              LAMBDA i, j : compareHTMLNodes(e[i], a[j], path, hcfg) = <<>>)

\* the expected positions without a partner, in order
Unpartnered(partner) == SelectSeq([i \in 1..Len(partner) |-> i], LAMBDA i : partner[i] = 0)

\* no actual position is the partner of two expected positions
AtMostOnce(partner) ==
    \A i, k \in 1..Len(partner) : (i # k /\ partner[i] # 0) => partner[i] # partner[k]

\* the arrays below wrapper w have one length and are compared without
\* regard to order, and their differences are the differences of the run
PairedArrays(w) ==
    /\ JSONDone /\ cfg.IgnoredFields = <<>>
    /\ Below(w, expected).t = "arr" /\ Below(w, actual).t = "arr"
    /\ Len(Below(w, expected).v) = Len(Below(w, actual).v)
    /\ Unordered(WrapPath("$", w))

\* the child lists of the two bodies have one length and are the only lists
\* compared without regard to order
PairedChildren ==
    /\ HTMLDone /\ hexp.Tag = "html" /\ hact.Tag = "html"
    /\ hcfg = [HDefault EXCEPT !.IgnoreChildOrderPaths = <<"html > body">>]
    /\ Len(BodyKids(hexp)) = Len(BodyKids(hact))

\* the pairing of the two bodies
BodyPartner == ChildPartner(BodyKids(hexp), BodyKids(hact), "html > body")

\* C25: comparing two collections of one length without regard to order,
\* every expected element, in order, is bound to the lowest actual element
\* not yet bound whose comparison with it has zero differences; no binding
\* is revised and no actual element bound twice; the result is empty exactly
\* when every expected element has a partner, and otherwise reports the
\* expected elements without one, in order.
C25_GreedyFirstFit ==
    /\ \A w \in KeyWrappers :
          PairedArrays(w) =>
             LET e == Below(w, expected)
                 p == WrapPath("$", w)
                 partner == Partner(e, Below(w, actual), p)
                 lone == Unpartnered(partner)
             IN  /\ AtMostOnce(partner)
                 /\ (diffs = <<>>) <=> (\A i \in 1..Len(partner) : partner[i] # 0)
                 /\ Len(diffs) = Len(lone)
                 /\ \A i \in 1..Len(diffs) :
                       /\ diffs[i].Path = IndexPath(p, lone[i] - 1)
                       /\ diffs[i].Expected = e.v[lone[i]]
    /\ PairedChildren =>
          LET lone == Unpartnered(BodyPartner)
          IN  /\ AtMostOnce(BodyPartner)
              /\ (hdiffs = <<>>) <=> (\A i \in 1..Len(BodyPartner) : BodyPartner[i] # 0)
              /\ Len(hdiffs) = Len(lone)
              /\ \A i \in 1..Len(hdiffs) :
                    hdiffs[i].Expected = Str(describeNode(BodyKids(hexp)[lone[i]]))

\* [Ignore, "x"] against ["x", 2]: Ignore takes "x", the first member that
\* fits, and "x" is left without a partner although another pairing exists
C25_Witness ==
    /\ PairedArrays(<<>>)
    /\ expected = Arr(<<Ignore, Str("x")>>)
    /\ actual = Arr(<<Str("x"), Num(2)>>)
    /\ Partner(expected, actual, "$") = <<1, 0>>
    /\ Len(diffs) = 1 /\ diffs[1].Path = "$[1]"

\* a reordered array of three members below the key a: every member has its
\* partner
C25_WitnessReordered ==
    /\ PairedArrays(<<"a">>)
    /\ Len(Below(<<"a">>, expected).v) = 3
    /\ Partner(Below(<<"a">>, expected), Below(<<"a">>, actual), "$.a") = <<3, 1, 2>>
    /\ diffs = <<>>

\* two reordered children of a body, and two children of which one has no
\* partner
C25_WitnessChildren ==
    /\ PairedChildren
    /\ BodyPartner = <<2, 1>>
    /\ hdiffs = <<>>
C25_WitnessChildUnpaired ==
    /\ PairedChildren
    /\ BodyPartner = <<2, 0>>
    /\ Len(hdiffs) = 1

(* A text matcher against a node that is no text.                          *)

\* the two bodies are compared child by child, in order, with the default
\* configuration
BodiesInOrder ==
    /\ HTMLDone /\ hexp.Tag = "html" /\ hact.Tag = "html"
    /\ hcfg = HDefault

\* position i of the expected body holds a text with a matcher other than
\* Ignore and the same position of the actual body a node that is no text
MatcherAgainstNonText(i) ==
    /\ i <= Len(BodyKids(hexp)) /\ i <= Len(BodyKids(hact))
    /\ BodyKids(hexp)[i].Type = HTMLText
    /\ IsMatcher(BodyKids(hexp)[i].Text) /\ ~IsIgnore(BodyKids(hexp)[i].Text)
    /\ BodyKids(hact)[i].Type # HTMLText

\* C26: when the expected node is a text node holding a matcher other than
\* Ignore and the actual node at the same position is no text node, the
\* comparison reports a difference at the path of that node.
C26_TextMatcherOnlyText ==
    BodiesInOrder =>
        \A i \in 1..MaxKids :
            MatcherAgainstNonText(i) =>
                \E k \in 1..Len(hdiffs) :
                    hdiffs[k].Path = buildChildPath("html > body", BodyKids(hexp)[i], i - 1)

\* {{anyString}} against <span></span>: the empty text of the element is
\* accepted and nothing is reported
C26_Witness ==
    /\ BodiesInOrder
    /\ Len(BodyKids(hexp)) = 1 /\ Len(BodyKids(hact)) = 1
    /\ MatcherAgainstNonText(1)
    /\ BodyKids(hexp)[1].Text = AnyString
    /\ BodyKids(hact)[1].Type = HTMLElement /\ BodyKids(hact)[1].Tag = "span"
    /\ hdiffs = <<>>

\* {{anyString}} against <!--c-->: the text of the comment is accepted
C26_WitnessComment ==
    /\ BodiesInOrder
    /\ Len(BodyKids(hexp)) = 1 /\ Len(BodyKids(hact)) = 1
    /\ MatcherAgainstNonText(1)
    /\ BodyKids(hact)[1].Type = HTMLComment
    /\ hdiffs = <<>>

(* The run after an update.                                                *)

\* the steps of a call of AssertJSON that compared and found no parse error
ComparedSteps == <<"stat", "parseExpected", "parseActual", "compare">>

\* the call before this one rewrote the file in update mode because it found
\* differences, and this call has the same actual document and update mode
\* off
AfterRewrite ==
    /\ mode = "json" /\ calls = 2
    /\ prev.update /\ prev.steps = ComparedSteps \o <<"write">> /\ prev.diffs # <<>>
    /\ ~update /\ actual = prev.actual

\* C27: after a run of AssertJSON in update mode has rewritten the expected
\* file because it found differences, the next run on the same actual
\* document with update mode off parses the rewritten file and finds no
\* difference.
C27_UpdateConverges ==
    (AfterRewrite /\ pc = "end") =>
        /\ steps = ComparedSteps
        /\ parsed.err = ""
        /\ diffs = <<>>
        /\ tb = "ok"

\* {"id": "{{anyString}}"} against {"id": 2}: the update keeps the matcher in
\* place of the value it rejects, and the next run fails on it again
C27_Witness ==
    /\ AfterRewrite /\ pc = "end"
    /\ actual = Obj("id" :> Num(2))
    /\ content = CObj(<<Member("id", Tmpl("anyString"))>>)
    /\ steps = ComparedSteps
    /\ Len(diffs) = 1 /\ diffs[1].Type = DiffMatcherFailed /\ diffs[1].Path = "$.id"
    /\ tb = "error"

\* {"id": "{{oneOf "x" "y"}}"} against {"id": "z"}: the rewritten file holds
\* {{oneOf [x y]}}, which the next run cannot parse
C27_WitnessParseError ==
    /\ AfterRewrite /\ pc = "end"
    /\ actual = Obj("id" :> Str("z"))
    /\ content = CObj(<<Member("id", Tmpl("oneOf [x y]"))>>)
    /\ steps = <<"stat", "parseExpected">>
    /\ parsed.err # ""
    /\ tb = "fatal"

\* {"id": 2} against {"id": 4}: the file is rewritten as {"id": 4} and the
\* next run passes
C27_WitnessConverged ==
    /\ AfterRewrite /\ pc = "end"
    /\ actual = Obj("id" :> Num(4))
    /\ content = CObj(<<Member("id", Num(4))>>)
    /\ steps = ComparedSteps /\ diffs = <<>> /\ tb = "ok"

(* When the expected file is written.                                      *)

\* the step writes the file: it creates it, changes its content or writes
\* it once more
WritesFile == exists' # exists \/ content' # content \/ writes' # writes

\* the call has parsed the expected file and the actual document, compared
\* them and found at least one difference
ComparedWithDifferences ==
    /\ pc = "finish"
    /\ steps = ComparedSteps
    /\ parsed.err = ""
    /\ IF mode = "json" THEN diffs # <<>> ELSE hdiffs # <<>>

\* C28: over every sequence of AssertJSON and AssertHTML calls, a step of a
\* call writes the expected file only if update mode is on and either the
\* file did not exist or the call parsed both documents and the comparison
\* found at least one difference; a call with update mode off, a call whose
\* comparison is empty and a call that fails on a parse error leave the file
\* as it is.
C28_WritesOnlyOnRequest ==
    [][WritesFile => (update /\ (~exists \/ ComparedWithDifferences))]_vars

\* a second call in update mode has rewritten the file the first call, also
\* in update mode, had created
C28_Witness ==
    /\ pc = "end" /\ calls = 2 /\ update /\ prev.update
    /\ prev.steps = <<"stat", "unmarshal", "write">>
    /\ steps = ComparedSteps \o <<"write">>
    /\ writes = 2

\* a call with update mode off has found differences and left the file
C28_WitnessReported ==
    /\ pc = "end" /\ calls = 1 /\ ~update
    /\ steps = ComparedSteps /\ tb = "error"
    /\ writes = 0

\* a call in update mode has found no difference and left the file
C28_WitnessNoDifference ==
    /\ pc = "end" /\ calls = 1 /\ update
    /\ steps = ComparedSteps /\ tb = "ok"
    /\ writes = 0

\* a call in update mode has failed on a parse error and left the file
C28_WitnessParseError ==
    /\ pc = "end" /\ calls = 1 /\ update
    /\ steps = <<"stat", "parseExpected">> /\ tb = "fatal"
    /\ writes = 0

(* The order of deletions and insertions in a hunk.                        *)

\* line k of the output is a Delete line, an Insert line: "- " or "+ " at
\* its start, after the colour code when colours are on
IsDeleteLine(k) == HasPrefix(result[k], "- ") \/ HasPrefix(result[k], colorRed \o "- ")
IsInsertLine(k) == HasPrefix(result[k], "+ ") \/ HasPrefix(result[k], colorGreen \o "+ ")

\* the lines k..l of the output lie in one run of lines that are not Equal
OneHunk(k, l) == \A n \in k..l : IsDeleteLine(n) \/ IsInsertLine(n)

\* C29: in the output of computeDiff no Insert line is immediately followed
\* by a Delete line, so in every maximal run of lines that are not Equal all
\* Delete lines come before all Insert lines.
C29_DeletesBeforeInserts ==
    DiffDone =>
        /\ \A k \in 1..(Len(result) - 1) : ~(IsInsertLine(k) /\ IsDeleteLine(k + 1))
        /\ \A k, l \in 1..Len(result) :
              (k < l /\ OneHunk(k, l)) => ~(IsInsertLine(k) /\ IsDeleteLine(l))

\* [a, b] against [a, c] with colours off: the hunk is "- b" then "+ c"
C29_Witness ==
    /\ DiffDone /\ ~env
    /\ lexp = <<"a", "b">> /\ lact = <<"a", "c">>
    /\ result = <<"  a", "- b", "+ c">>

\* a hunk of two Delete lines followed by two Insert lines, in colour
C29_WitnessColour ==
    /\ DiffDone /\ env
    /\ Len(result) = 5
    /\ IsDeleteLine(1) /\ IsDeleteLine(2) /\ IsInsertLine(3) /\ IsInsertLine(4)
    /\ result[5] = "  c"

(* Unmatched expected and unused actual elements.                          *)

\* the positions of a whose used flag is not set, in order
UnusedOf(used) == SelectSeq([j \in 1..Len(used) |-> j], LAMBDA j : ~used[j])

\* what the pairing loop leaves for the arrays below wrapper w, and for the
\* two bodies
ArrayPairing(w) ==
    PairingLoop(1, Below(w, expected).v, Below(w, actual).v,
                [j \in 1..Len(Below(w, actual).v) |-> FALSE], <<>>,
                WrapPath("$", w), cfg)
BodyPairing ==
    ChildPairingLoop(1, BodyKids(hexp), BodyKids(hact),
                     [j \in 1..Len(BodyKids(hact)) |-> FALSE], <<>>, "html > body", hcfg)

\* C30: comparing two collections of one length without regard to order,
\* after the pairing loop as many actual elements are unused as expected
\* elements are unmatched; the differences number the unmatched expected
\* elements, and the i-th of them has the i-th unused actual element as its
\* Actual side.
C30_UnmatchedEqualsUnused ==
    /\ \A w \in KeyWrappers :
          PairedArrays(w) =>
             LET r == ArrayPairing(w)
                 unused == UnusedOf(r.used)
             IN  /\ Len(r.unmatched) = Len(unused)
                 /\ Len(diffs) = Len(r.unmatched)
                 /\ \A i \in 1..Len(diffs) :
                       /\ i <= Len(unused)
                       /\ diffs[i].Actual = Below(w, actual).v[unused[i]]
                       /\ diffs[i].Type = DiffChanged
    /\ PairedChildren =>
          LET r == BodyPairing
              unused == UnusedOf(r.used)
          IN  /\ Len(r.unmatched) = Len(unused)
              /\ Len(hdiffs) = Len(r.unmatched)
              /\ \A i \in 1..Len(hdiffs) :
                    /\ i <= Len(unused)
                    /\ hdiffs[i].Actual = Str(describeNode(BodyKids(hact)[unused[i]]))
                    /\ hdiffs[i].Actual # Null

\* two expected members without a partner and two unused actual members
C30_Witness ==
    /\ PairedArrays(<<>>)
    /\ Len(expected.v) = 2
    /\ ArrayPairing(<<>>).unmatched = <<1, 2>>
    /\ UnusedOf(ArrayPairing(<<>>).used) = <<1, 2>>
    /\ Len(diffs) = 2
    /\ diffs[1].Actual = actual.v[1] /\ diffs[2].Actual = actual.v[2]

\* the second expected member is unmatched and the first actual one unused
C30_WitnessCrossed ==
    /\ PairedArrays(<<>>)
    /\ ArrayPairing(<<>>).unmatched = <<2>>
    /\ UnusedOf(ArrayPairing(<<>>).used) = <<1>>
    /\ Len(diffs) = 1 /\ diffs[1].Path = "$[1]" /\ diffs[1].Actual = actual.v[1]

\* one child of the body unmatched and one unused
C30_WitnessChildren ==
    /\ PairedChildren
    /\ Len(BodyPairing.unmatched) = 1 /\ Len(UnusedOf(BodyPairing.used)) = 1
    /\ Len(hdiffs) = 1
====
